---- MODULE Spec2Model ----
(***************************************************************************)
(* State-machine model of the Credence bond contract                       *)
(* (contracts/credence_bond): the bond ledger, the slashing engine, the    *)
(* cooldown and emergency withdrawal paths, the reentrancy guard and the   *)
(* governance-approved slash.                                              *)
(*                                                                         *)
(* Host semantics (Soroban): a contract invocation that panics is rolled   *)
(* back as a whole, so a failing call leaves storage untouched.  Every     *)
(* handler is one action; the ghost variable `last` records which handler  *)
(* ran last and how it ended.                                              *)
(***************************************************************************)
EXTENDS Integers, Sequences, FiniteSets, TLC

\* ---------------------------------------------------------------- bounds
\* Stand-in for i128::MAX: amounts are signed and checked_* operations fail
\* outside I128_MIN..I128_MAX.
I128_MAX == 3
I128_MIN == 0 - I128_MAX - 1
\* Ledger time runs over 0..MaxTime.
MaxTime == 1
\* Largest bond duration / cooldown period offered as an input.
MaxDuration == 1
\* Emergency audit records kept before the model stops issuing withdrawals.
MaxRecords == 1
\* Consecutive direct slashes logged on one bond.
MaxSlashes == 3
\* Slash proposals created.
MaxProposals == 1
\* Ledger time of the withdrawal-timing specifications runs over 0..MaxClock.
MaxClock == 3
\* Emergency withdrawals logged by the emergency specification.
MaxAudit == 2
\* Attestations added by the attestation specification.
MaxAttestations == 2
\* Creation fees fixed_duration_bond accrues before they are collected.
MaxAccrued == 1
\* Proposals submitted to the multisig contract between two initialisations.
MaxSubmitted == 1

\* ------------------------------------------------------------- constants
\* validation.rs, scaled to the model's amount range (order preserved:
\* 0 < MIN_BOND_AMOUNT < MAX_BOND_AMOUNT < i128::MAX).
MIN_BOND_AMOUNT == 1
MAX_BOND_AMOUNT == 2
\* validation.rs, scaled to the model's time range.
MIN_BOND_DURATION == 1
MAX_BOND_DURATION == 2
\* Basis-point denominator (math.rs, emergency.rs).
BPS_DENOMINATOR == 10000

\* ---------------------------------------------------------------- inputs
Addr == {"admin", "alice", "gov"}
NoAddr == "none"
Amounts == {0 - 1, 0, 1, 2, I128_MAX}
Durations == 0..MaxDuration

NoBond == [none |-> TRUE]
NoReq == [none |-> TRUE]
NoConfig == [none |-> TRUE]
NoFrame == [op |-> "none"]
\* governance_approval storage before initialize_governance.
NoGovernance ==
    [governors |-> {}, quorum_bps |-> 0, min_governors |-> 0,
     proposals |-> <<>>, votes |-> {}, delegates |-> {}]

\* Attestation storage before any attester is registered: no Attester flag,
\* no verifier role, AttestationCounter 0, no DuplicateCheck key, every
\* Nonce(identity) absent (read as 0).
NoAttestations ==
    [attesters |-> {}, verifiers |-> {}, items |-> <<>>, dup |-> {},
     nonce |-> [a \in {"admin", "alice", "gov"} |-> 0]]

\* parameters.rs: no ParameterKey is stored; Unset marks an absent key (no
\* setter stores a negative value).
Unset == 0 - 1
ParameterKey ==
    {"ProtocolFeeBps", "AttestationFeeBps", "WithdrawalCooldownSecs",
     "SlashCooldownSecs", "BronzeThreshold", "SilverThreshold",
     "GoldThreshold", "PlatinumThreshold"}
NoParameters == [k \in ParameterKey |-> Unset]

\* fixed_duration_bond before initialize.  fee_bps is the fee of
\* DataKey::FeeConfig and penalty_bps is DataKey::PenaltyBps, both read as 0
\* while absent; bonds is DataKey::Bond(owner).
NoFixedBond ==
    [admin |-> "none", token |-> FALSE, fee_bps |-> 0, penalty_bps |-> 0,
     accrued_fees |-> 0,
     bonds |-> [a \in {"admin", "alice", "gov"} |-> [none |-> TRUE]]]

\* credence_multisig before initialize: proposals is DataKey::Proposal(id),
\* signatures the set of DataKey::Signature(id, signer) keys that are set,
\* signature_count is DataKey::SignatureCount(id).
NoProposal == [none |-> TRUE]
NoMultisig ==
    [admin |-> "none", signers |-> {}, signer_count |-> 0, threshold |-> 0,
     proposal_counter |-> 0, signer_list |-> <<>>,
     proposals |-> [id \in 0..(MaxSubmitted - 1) |-> NoProposal],
     signatures |-> {},
     signature_count |-> [id \in 0..(MaxSubmitted - 1) |-> 0]]

VARIABLES
    admin,              \* DataKey::Admin
    token,              \* DataKey::Token is set
    bond,               \* DataKey::Bond (one bond per contract instance)
    now,                \* e.ledger().timestamp()
    lock,               \* Symbol "lock"
    callback,           \* Symbol "callback" is set
    fees,               \* Symbol "fees" (fee pool)
    fee_bps,            \* DataKey::FeeBps (0 while no treasury is configured)
    penalty_bps,        \* early-exit penalty config (0 while unset)
    cooldown_period,    \* Symbol "cooldown_period"
    cooldown_req,       \* DataKey::CooldownReq(Address)
    emergency_config,   \* Symbol "emergency_config"
    emergency_records,  \* EmergencyDataKey::Record(1..seq)
    governance_approval, \* governance storage: roster, quorum, proposals, votes
    slash_history,      \* SlashStorageKey::SlashRecord(Address, 0..count-1)
    attestations,       \* DataKey::Attester, Attestation, DuplicateCheck, Nonce
    parameters,         \* parameters.rs: ParameterKey::*
    fixed_bond,         \* storage of the fixed_duration_bond contract
    multisig,           \* storage of the credence_multisig contract
    frame,              \* top-level call suspended in an external call
    last,               \* ghost: outcome of the most recent call
    hist                \* ghost: log kept by the specification that needs one

\* Storage of the two other contracts of the repository that are modelled.
foreign == <<fixed_bond, multisig>>

storage == <<admin, token, bond, lock, callback, fees, fee_bps, penalty_bps,
             cooldown_period, cooldown_req, emergency_config, emergency_records,
             governance_approval, slash_history, attestations, parameters>>
vars == <<admin, token, bond, now, lock, callback, fees, fee_bps, penalty_bps,
          cooldown_period, cooldown_req, emergency_config, emergency_records,
          governance_approval, slash_history, attestations, parameters, frame,
          foreign, last, hist>>
\* Storage other than the bond record.
nonbond == <<admin, token, lock, callback, fees, fee_bps, penalty_bps,
             cooldown_period, cooldown_req, emergency_config, emergency_records,
             governance_approval, slash_history, attestations, parameters>>

Ok(op) == [op |-> op, ok |-> TRUE, err |-> "ok"]
Fail(op, err) == [op |-> op, ok |-> FALSE, err |-> err]

Min(a, b) == IF a < b THEN a ELSE b

\* Rust integer division truncates toward zero (d > 0).
TruncDiv(n, d) == IF n >= 0 THEN n \div d ELSE 0 - ((0 - n) \div d)

\* i128::checked_add / checked_sub succeed exactly inside the i128 range.
InI128(x) == I128_MIN <= x /\ x <= I128_MAX

\* i128::checked_mul by a basis-point factor.  The amount range of the model
\* stands for the amounts whose product with 10000 still fits an i128.
MulInI128(amount, bps) ==
    I128_MIN * BPS_DENOMINATOR <= amount * bps
    /\ amount * bps <= I128_MAX * BPS_DENOMINATOR

\* Two's-complement wrap-around of an unchecked i128 operation.
WrapI128(x) == ((x - I128_MIN) % (I128_MAX - I128_MIN + 1)) + I128_MIN

\* Results an unchecked `a + b` / `a - b` can give: the exact value, or on
\* overflow either a panic (overflow-checks on) or the wrapped value.
Unchecked(x) == IF InI128(x) THEN {[panic |-> FALSE, val |-> x]}
                ELSE {[panic |-> TRUE, val |-> 0],
                      [panic |-> FALSE, val |-> WrapI128(x)]}

Init ==
    /\ admin = NoAddr
    /\ token = FALSE
    /\ bond = NoBond
    /\ now = 0
    /\ lock = FALSE
    /\ callback = FALSE
    /\ fees = 0
    /\ fee_bps = 0
    /\ penalty_bps = 0
    /\ cooldown_period = 0
    /\ cooldown_req = [a \in Addr |-> NoReq]
    /\ emergency_config = NoConfig
    /\ emergency_records = <<>>
    /\ governance_approval = NoGovernance
    /\ slash_history = [a \in Addr |-> <<>>]
    /\ attestations = NoAttestations
    /\ parameters = NoParameters
    /\ fixed_bond = NoFixedBond
    /\ multisig = NoMultisig
    /\ frame = NoFrame
    /\ last = Ok("construct")
    /\ hist = <<>>

\* A handler either commits `effect` or panics and is rolled back.
Outcome(op, err, effect) ==
    IF err = "ok"
    THEN effect /\ last' = Ok(op)
    ELSE UNCHANGED storage /\ last' = Fail(op, err)

HasBond == bond # NoBond

\* ------------------------------------------------------------ lib.rs
require_admin_err(a) ==
    IF admin = NoAddr THEN "not initialized"
    ELSE IF a # admin THEN "not admin"
    ELSE "ok"

initialize(a) ==
    /\ admin' = a
    /\ last' = Ok("initialize")
    /\ UNCHANGED <<token, bond, now, lock, callback, fees, fee_bps, penalty_bps,
                   cooldown_period, cooldown_req, emergency_config,
                   emergency_records, governance_approval,
                   slash_history, attestations, parameters, frame, foreign>>

set_token(a) ==
    /\ Outcome("set_token", require_admin_err(a),
               /\ token' = TRUE
               /\ UNCHANGED <<admin, bond, lock, callback, fees, fee_bps,
                              penalty_bps, cooldown_period, cooldown_req,
                              emergency_config, emergency_records,
                              governance_approval, slash_history, attestations, parameters>>)
    /\ UNCHANGED <<now, frame, foreign>>

\* SEP-41 token: transfer / transfer_from reject a negative amount.  The
\* identity is funded and has approved the contract (test_helpers.rs), and the
\* contract always holds at least bonded_amount, so no other transfer fails.
TransferOk(amount) == amount >= 0

\* fees::calculate_fee: (fee, net) of a bond creation.
calculate_fee(amount) ==
    LET fee == TruncDiv(amount * fee_bps, BPS_DENOMINATOR)
    IN [fee |-> fee, net |-> amount - fee]

NewBond(identity, amount, duration, is_rolling, notice) ==
    [identity |-> identity,
     bonded_amount |-> amount,
     bond_start |-> now,
     bond_duration |-> duration,
     slashed_amount |-> 0,
     active |-> TRUE,
     is_rolling |-> is_rolling,
     withdrawal_requested_at |-> 0,
     notice_period_duration |-> notice]

create_bond_with_rolling_err(amount) ==
    IF amount < 0 THEN "amount must be non-negative"
    ELSE IF ~token THEN "token not set"
    ELSE IF ~TransferOk(amount) THEN "token transfer failed"
    ELSE "ok"

create_bond_with_rolling(identity, amount, duration, is_rolling, notice) ==
    /\ Outcome("create_bond", create_bond_with_rolling_err(amount),
               /\ bond' = NewBond(identity, calculate_fee(amount).net, duration,
                                  is_rolling, notice)
               /\ UNCHANGED nonbond)
    /\ UNCHANGED <<now, frame, foreign>>

\* validation::validate_bond_amount
validate_bond_amount_err(amount) ==
    IF amount < 0 THEN "bond amount cannot be negative"
    ELSE IF amount < MIN_BOND_AMOUNT THEN "bond amount below minimum required"
    ELSE IF amount > MAX_BOND_AMOUNT THEN "bond amount exceeds maximum allowed"
    ELSE "ok"

\* validation::validate_bond_duration
validate_bond_duration_err(duration) ==
    IF duration < MIN_BOND_DURATION THEN "bond duration too short"
    ELSE IF duration > MAX_BOND_DURATION THEN "bond duration too long"
    ELSE "ok"

create_bond_err(amount, duration) ==
    IF validate_bond_amount_err(amount) # "ok" THEN validate_bond_amount_err(amount)
    ELSE IF validate_bond_duration_err(duration) # "ok"
         THEN validate_bond_duration_err(duration)
    ELSE create_bond_with_rolling_err(amount)

create_bond(identity, amount, duration, is_rolling, notice) ==
    /\ Outcome("create_bond", create_bond_err(amount, duration),
               /\ bond' = NewBond(identity, calculate_fee(amount).net, duration,
                                  is_rolling, notice)
               /\ UNCHANGED nonbond)
    /\ UNCHANGED <<now, frame, foreign>>

\* ------------------------------------------------------------ batch.rs
\* batch::validate_batch_bonds: the first failing check of the first invalid
\* entry.  (The u64 overflow of bond_start + duration lies outside the time
\* range of the model.)
validate_batch_bonds_err(params_list) ==
    IF params_list = <<>> THEN "empty batch"
    ELSE LET bad == {i \in 1..Len(params_list) :
                        \/ params_list[i].amount <= 0
                        \/ params_list[i].is_rolling
                           /\ params_list[i].notice_period_duration = 0}
         IN IF bad = {} THEN "ok"
            ELSE LET i == CHOOSE j \in bad : \A k \in bad : j <= k
                 IN IF params_list[i].amount <= 0 THEN "invalid amount in batch"
                    ELSE "rolling bond requires notice period"

\* batch::create_batch_bonds, steps 1 and 2.
create_batch_bonds_err(params_list) ==
    IF validate_batch_bonds_err(params_list) # "ok"
    THEN validate_batch_bonds_err(params_list)
    ELSE IF bond # NoBond THEN "bond already exists"
    ELSE "ok"

\* batch::create_batch_bonds, step 3: every entry is stored under the single
\* key DataKey::Bond, so the bond of the last entry is the one that remains.
create_batch_bonds_stored(params_list) ==
    LET params == params_list[Len(params_list)]
    IN NewBond(params.identity, params.amount, params.duration,
               params.is_rolling, params.notice_period_duration)

\* create_batch_bonds applied entry by entry with nothing undone: the
\* entries before the first invalid one are stored although the call panics.
create_batch_bonds_partial(params_list) ==
    /\ IF create_batch_bonds_err(params_list) = "ok"
       THEN /\ bond' = create_batch_bonds_stored(params_list)
            /\ last' = Ok("create_batch_bonds")
       ELSE /\ bond' = IF params_list # <<>> /\ params_list[1].amount > 0
                       THEN create_batch_bonds_stored(<<params_list[1]>>)
                       ELSE bond
            /\ last' = Fail("create_batch_bonds",
                            create_batch_bonds_err(params_list))
    /\ UNCHANGED nonbond
    /\ UNCHANGED <<now, frame, foreign>>

create_batch_bonds(params_list) ==
    /\ Outcome("create_batch_bonds", create_batch_bonds_err(params_list),
               /\ bond' = create_batch_bonds_stored(params_list)
               /\ UNCHANGED nonbond)
    /\ UNCHANGED <<now, frame, foreign>>

\* ------------------------------------------------------------ lib.rs
top_up_err(amount) ==
    IF amount < MIN_BOND_AMOUNT THEN "top-up amount below minimum required"
    ELSE IF bond = NoBond THEN "no bond"
    ELSE IF ~InI128(bond.bonded_amount + amount) THEN "top-up caused overflow"
    ELSE IF validate_bond_amount_err(bond.bonded_amount + amount) # "ok"
         THEN validate_bond_amount_err(bond.bonded_amount + amount)
    ELSE IF ~token THEN "token not set"
    ELSE IF ~TransferOk(amount) THEN "token transfer failed"
    ELSE "ok"

top_up_updated(b, amount) ==
    [b EXCEPT !.bonded_amount = b.bonded_amount + amount]

top_up(amount) ==
    /\ Outcome("top_up", top_up_err(amount),
               /\ bond' = top_up_updated(bond, amount)
               /\ UNCHANGED nonbond)
    /\ UNCHANGED <<now, frame, foreign>>

\* rolling_bond::can_withdraw_after_notice
can_withdraw_after_notice(t, requested_at, notice) == t >= requested_at + notice

\* A lock-up that ends when it starts.
bond_end_at_start(b) == b.bond_start

\* bond_start.saturating_add(bond_duration)
bond_end(b) == b.bond_start + b.bond_duration

\* withdraw_bond without the balance check of lib.rs 690-698.
withdraw_bond_err_unbalanced(amount) ==
    IF bond = NoBond THEN "no bond"
    ELSE IF bond.is_rolling /\ bond.withdrawal_requested_at = 0
         THEN "cooldown window not elapsed; request_withdrawal first"
    ELSE IF bond.is_rolling
            /\ ~can_withdraw_after_notice(now, bond.withdrawal_requested_at,
                                          bond.notice_period_duration)
         THEN "cooldown window not elapsed; request_withdrawal first"
    ELSE IF ~bond.is_rolling /\ now < bond_end(bond)
         THEN "lock-up period not elapsed; use withdraw_early"
    ELSE IF ~token THEN "token not set"
    ELSE IF ~TransferOk(amount) THEN "token transfer failed"
    ELSE IF ~InI128(bond.bonded_amount - amount) THEN "withdrawal caused underflow"
    ELSE "ok"

\* withdraw_bond without the withdrawal_requested_at == 0 check of a rolling
\* bond.
withdraw_bond_err_unrequested(amount) ==
    IF bond = NoBond THEN "no bond"
    ELSE IF bond.is_rolling
            /\ ~can_withdraw_after_notice(now, bond.withdrawal_requested_at,
                                          bond.notice_period_duration)
         THEN "cooldown window not elapsed; request_withdrawal first"
    ELSE IF ~bond.is_rolling /\ now < bond_end(bond)
         THEN "lock-up period not elapsed; use withdraw_early"
    ELSE IF ~InI128(bond.bonded_amount - bond.slashed_amount)
         THEN "slashed amount exceeds bonded amount"
    ELSE IF amount > bond.bonded_amount - bond.slashed_amount
         THEN "insufficient balance for withdrawal"
    ELSE IF ~token THEN "token not set"
    ELSE IF ~TransferOk(amount) THEN "token transfer failed"
    ELSE IF ~InI128(bond.bonded_amount - amount) THEN "withdrawal caused underflow"
    ELSE "ok"

withdraw_bond_err(amount) ==
    IF bond = NoBond THEN "no bond"
    ELSE IF bond.is_rolling /\ bond.withdrawal_requested_at = 0
         THEN "cooldown window not elapsed; request_withdrawal first"
    ELSE IF bond.is_rolling
            /\ ~can_withdraw_after_notice(now, bond.withdrawal_requested_at,
                                          bond.notice_period_duration)
         THEN "cooldown window not elapsed; request_withdrawal first"
    ELSE IF ~bond.is_rolling /\ now < bond_end(bond)
         THEN "lock-up period not elapsed; use withdraw_early"
    ELSE IF ~InI128(bond.bonded_amount - bond.slashed_amount)
         THEN "slashed amount exceeds bonded amount"
    ELSE IF amount > bond.bonded_amount - bond.slashed_amount
         THEN "insufficient balance for withdrawal"
    ELSE IF ~token THEN "token not set"
    ELSE IF ~TransferOk(amount) THEN "token transfer failed"
    ELSE IF ~InI128(bond.bonded_amount - amount) THEN "withdrawal caused underflow"
    ELSE "ok"

\* The bond written back by withdraw_bond, computed from its local copy b.
withdraw_bond_updated(b, amount) ==
    LET bonded == b.bonded_amount - amount
    IN [b EXCEPT !.bonded_amount = bonded,
                 !.slashed_amount = IF b.slashed_amount > bonded
                                    THEN bonded ELSE b.slashed_amount]

withdraw_bond(amount) ==
    /\ Outcome("withdraw_bond", withdraw_bond_err(amount),
               /\ bond' = withdraw_bond_updated(bond, amount)
               /\ UNCHANGED nonbond)
    /\ UNCHANGED <<now, frame, foreign>>

\* early_exit_penalty::calculate_penalty: bps of the amount, pro rata of the
\* remaining lock-up time.
calculate_penalty(amount, remaining, total, bps) ==
    TruncDiv(amount * bps * remaining, BPS_DENOMINATOR * total)

withdraw_early_penalty(amount) ==
    calculate_penalty(amount, bond_end(bond) - now, bond.bond_duration, penalty_bps)

\* withdraw_early without the lock-up check of lib.rs 737-739.  The penalty of
\* a bond without duration is taken as 0.
withdraw_early_err_untimed(amount) ==
    IF bond = NoBond THEN "no bond"
    ELSE IF ~InI128(bond.bonded_amount - bond.slashed_amount)
         THEN "slashed amount exceeds bonded amount"
    ELSE IF amount > bond.bonded_amount - bond.slashed_amount
         THEN "insufficient balance for withdrawal"
    ELSE IF ~token THEN "token not set"
    ELSE IF ~TransferOk(amount) THEN "token transfer failed"
    ELSE IF ~InI128(bond.bonded_amount - amount) THEN "withdrawal caused underflow"
    ELSE IF bond.slashed_amount > bond.bonded_amount - amount
         THEN "slashed amount exceeds bonded amount"
    ELSE "ok"

withdraw_early_err(amount) ==
    IF bond = NoBond THEN "no bond"
    ELSE IF now >= bond_end(bond) THEN "use withdraw for post lock-up"
    ELSE IF ~InI128(bond.bonded_amount - bond.slashed_amount)
         THEN "slashed amount exceeds bonded amount"
    ELSE IF amount > bond.bonded_amount - bond.slashed_amount
         THEN "insufficient balance for withdrawal"
    ELSE IF ~token THEN "token not set"
    ELSE IF ~InI128(amount - withdraw_early_penalty(amount))
         THEN "penalty exceeds amount"
    ELSE IF ~TransferOk(amount - withdraw_early_penalty(amount))
         THEN "token transfer failed"
    ELSE IF ~InI128(bond.bonded_amount - amount) THEN "withdrawal caused underflow"
    ELSE IF bond.slashed_amount > bond.bonded_amount - amount
         THEN "slashed amount exceeds bonded amount"
    ELSE "ok"

withdraw_early_updated(b, amount) ==
    [b EXCEPT !.bonded_amount = b.bonded_amount - amount]

withdraw_early(amount) ==
    /\ Outcome("withdraw_early", withdraw_early_err(amount),
               /\ bond' = withdraw_early_updated(bond, amount)
               /\ UNCHANGED nonbond)
    /\ UNCHANGED <<now, frame, foreign>>

request_withdrawal_err ==
    IF bond = NoBond THEN "no bond"
    ELSE IF ~bond.is_rolling THEN "not a rolling bond"
    ELSE IF bond.withdrawal_requested_at # 0 THEN "withdrawal already requested"
    ELSE "ok"

request_withdrawal ==
    /\ Outcome("request_withdrawal", request_withdrawal_err,
               /\ bond' = [bond EXCEPT !.withdrawal_requested_at = now]
               /\ UNCHANGED nonbond)
    /\ UNCHANGED <<now, frame, foreign>>

\* rolling_bond::is_period_ended
is_period_ended(t, bond_start, bond_duration) == t >= bond_start + bond_duration

\* rolling_bond::apply_renewal: a new period starts at t and the pending
\* withdrawal request is cleared.
apply_renewal(b, t) ==
    [b EXCEPT !.bond_start = t, !.withdrawal_requested_at = 0]

\* renew_if_rolling without its two early returns.
renew_if_rolling_unconditional(b, t) == apply_renewal(b, t)

\* The bond renew_if_rolling returns: the stored one unless the bond is
\* rolling and its period has ended.
renew_if_rolling_updated(b, t) ==
    IF ~b.is_rolling THEN b
    ELSE IF ~is_period_ended(t, b.bond_start, b.bond_duration) THEN b
    ELSE apply_renewal(b, t)

renew_if_rolling ==
    /\ Outcome("renew_if_rolling", IF bond = NoBond THEN "no bond" ELSE "ok",
               /\ bond' = renew_if_rolling_updated(bond, now)
               /\ UNCHANGED nonbond)
    /\ UNCHANGED <<now, frame, foreign>>

\* ---------------------------------------------------------- slashing.rs
\* slashing::validate_admin
validate_admin_err(caller) ==
    IF admin = NoAddr THEN "not initialized"
    ELSE IF caller # admin THEN "not admin"
    ELSE "ok"

slashing_slash_bond_err(caller, amount) ==
    IF validate_admin_err(caller) # "ok" THEN validate_admin_err(caller)
    ELSE IF bond = NoBond THEN "no bond"
    ELSE IF ~InI128(bond.slashed_amount + amount) THEN "slashing caused overflow"
    ELSE "ok"

\* slashing::slash_bond steps 3-4: the capped new slashed_amount.
slashing_slash_bond_uncapped(b, amount) ==
    [b EXCEPT !.slashed_amount = b.slashed_amount + amount]

slashing_slash_bond_updated(b, amount) ==
    LET new_slashed == b.slashed_amount + amount
    IN [b EXCEPT !.slashed_amount = IF new_slashed > b.bonded_amount
                                    THEN b.bonded_amount ELSE new_slashed]

\* CredenceBond::slash(admin, amount) -> slashing::slash_bond
slash(caller, amount) ==
    /\ Outcome("slash", slashing_slash_bond_err(caller, amount),
               /\ bond' = slashing_slash_bond_updated(bond, amount)
               /\ UNCHANGED nonbond)
    /\ UNCHANGED <<now, frame, foreign>>

unslash_bond_err(caller, amount) ==
    IF validate_admin_err(caller) # "ok" THEN validate_admin_err(caller)
    ELSE IF bond = NoBond THEN "no bond"
    ELSE IF ~InI128(bond.slashed_amount - amount)
         THEN "unslashing would reduce below 0"
    ELSE "ok"

unslash_bond_updated(b, amount) ==
    [b EXCEPT !.slashed_amount = b.slashed_amount - amount]

unslash_bond(caller, amount) ==
    /\ Outcome("unslash_bond", unslash_bond_err(caller, amount),
               /\ bond' = unslash_bond_updated(bond, amount)
               /\ UNCHANGED nonbond)
    /\ UNCHANGED <<now, frame, foreign>>

\* ------------------------------------------------------ slash_history.rs
\* slash_history::append_slash_history: the record is stored under the next
\* index of the identity and the count is incremented.  No entry point of
\* the contract calls it.
append_slash_history(h, identity, slash_amount, reason, total_slashed_after) ==
    [h EXCEPT ![identity] =
        Append(@, [identity |-> identity, slash_amount |-> slash_amount,
                   reason |-> reason, timestamp |-> now,
                   total_slashed_after |-> total_slashed_after])]

\* slash_history::get_slash_count
get_slash_count(identity) == Len(slash_history[identity])

\* ------------------------------------------- lib.rs: guarded operations
acquire_lock_unchecked == "ok"

\* acquire_lock: panics while the lock is held, else stores true.
acquire_lock_err == IF lock THEN "reentrancy detected" ELSE "ok"

release_lock_skipped(held) == held

\* release_lock: the value stored under "lock" when a guarded call ends.
release_lock(held) == FALSE

\* The registered callback contract either returns or traps; a trap rolls the
\* whole invocation back.
callback_err(cb_ok) == IF callback /\ ~cb_ok THEN "callback failed" ELSE "ok"

withdraw_bond_full_err(identity, amt) ==
    IF acquire_lock_err # "ok" THEN acquire_lock_err
    ELSE IF bond = NoBond THEN "no bond"
    ELSE IF bond.identity # identity THEN "not bond owner"
    ELSE IF ~bond.active THEN "bond not active"
    ELSE IF amt.panic THEN "attempt to subtract with overflow"
    ELSE "ok"

withdraw_bond_full_updated(b) ==
    [b EXCEPT !.bonded_amount = 0, !.active = FALSE]

\* Atomic form: the callback does not call back into the contract.
withdraw_bond_full(identity) ==
    /\ \E cb_ok \in BOOLEAN :
       \E amt \in (IF bond = NoBond THEN {[panic |-> FALSE, val |-> 0]}
                   ELSE Unchecked(bond.bonded_amount - bond.slashed_amount)) :
          LET err == withdraw_bond_full_err(identity, amt)
          IN Outcome("withdraw_bond_full",
                     IF err # "ok" THEN err ELSE callback_err(cb_ok),
                     /\ bond' = withdraw_bond_full_updated(bond)
                     /\ lock' = release_lock(TRUE)
                     /\ UNCHANGED <<admin, token, callback, fees, fee_bps,
                                    penalty_bps, cooldown_period, cooldown_req,
                                    emergency_config, emergency_records,
                                    governance_approval, slash_history, attestations, parameters>>)
    /\ UNCHANGED <<now, frame, foreign>>

slash_bond_err(caller, new_slashed) ==
    IF acquire_lock_err # "ok" THEN acquire_lock_err
    ELSE IF admin = NoAddr THEN "no admin"
    ELSE IF admin # caller THEN "not admin"
    ELSE IF bond = NoBond THEN "no bond"
    ELSE IF ~bond.active THEN "bond not active"
    ELSE IF new_slashed.panic THEN "attempt to add with overflow"
    ELSE IF new_slashed.val > bond.bonded_amount THEN "slash exceeds bond"
    ELSE "ok"

slash_bond_updated(b, new_slashed) ==
    [b EXCEPT !.slashed_amount = new_slashed]

slash_bond(caller, slash_amount) ==
    /\ \E cb_ok \in BOOLEAN :
       \E new_slashed \in (IF bond = NoBond THEN {[panic |-> FALSE, val |-> 0]}
                           ELSE Unchecked(bond.slashed_amount + slash_amount)) :
          LET err == slash_bond_err(caller, new_slashed)
          IN Outcome("slash_bond",
                     IF err # "ok" THEN err ELSE callback_err(cb_ok),
                     /\ bond' = slash_bond_updated(bond, new_slashed.val)
                     /\ lock' = release_lock(TRUE)
                     /\ UNCHANGED <<admin, token, callback, fees, fee_bps,
                                    penalty_bps, cooldown_period, cooldown_req,
                                    emergency_config, emergency_records,
                                    governance_approval, slash_history, attestations, parameters>>)
    /\ UNCHANGED <<now, frame, foreign>>

collect_fees_err(caller) ==
    IF acquire_lock_err # "ok" THEN acquire_lock_err
    ELSE IF admin = NoAddr THEN "no admin"
    ELSE IF admin # caller THEN "not admin"
    ELSE "ok"

collect_fees(caller) ==
    /\ \E cb_ok \in BOOLEAN :
          LET err == collect_fees_err(caller)
          IN Outcome("collect_fees",
                     IF err # "ok" THEN err ELSE callback_err(cb_ok),
                     /\ fees' = 0
                     /\ lock' = release_lock(TRUE)
                     /\ UNCHANGED <<admin, token, bond, callback, fee_bps,
                                    penalty_bps, cooldown_period, cooldown_req,
                                    emergency_config, emergency_records,
                                    governance_approval, slash_history, attestations, parameters>>)
    /\ UNCHANGED <<now, frame, foreign>>

deposit_fees(amount) ==
    /\ Outcome("deposit_fees",
               IF InI128(fees + amount) THEN "ok" ELSE "fee pool overflow",
               /\ fees' = fees + amount
               /\ UNCHANGED <<admin, token, bond, lock, callback, fee_bps,
                              penalty_bps, cooldown_period, cooldown_req,
                              emergency_config, emergency_records,
                              governance_approval, slash_history, attestations, parameters>>)
    /\ UNCHANGED <<now, frame, foreign>>

set_callback ==
    /\ callback' = TRUE
    /\ last' = Ok("set_callback")
    /\ UNCHANGED <<admin, token, bond, now, lock, fees, fee_bps, penalty_bps,
                   cooldown_period, cooldown_req, emergency_config,
                   emergency_records, governance_approval,
                   slash_history, attestations, parameters, frame, foreign>>

\* ------------------------------------------- lib.rs / cooldown.rs
set_cooldown_period(caller, period) ==
    /\ Outcome("set_cooldown_period", require_admin_err(caller),
               /\ cooldown_period' = period
               /\ UNCHANGED <<admin, token, bond, lock, callback, fees, fee_bps,
                              penalty_bps, cooldown_req, emergency_config,
                              emergency_records, governance_approval,
                              slash_history, attestations, parameters>>)
    /\ UNCHANGED <<now, frame, foreign>>

\* request_cooldown_withdrawal without the pending-request check of lib.rs
\* 1419-1423.
request_cooldown_withdrawal_err_overwriting(requester, amount) ==
    IF amount <= 0 THEN "amount must be positive"
    ELSE IF bond = NoBond THEN "no bond"
    ELSE IF bond.identity # requester THEN "requester is not the bond holder"
    ELSE IF ~InI128(bond.bonded_amount - bond.slashed_amount)
         THEN "slashed amount exceeds bonded amount"
    ELSE IF amount > bond.bonded_amount - bond.slashed_amount
         THEN "amount exceeds available balance"
    ELSE "ok"

request_cooldown_withdrawal_err(requester, amount) ==
    IF amount <= 0 THEN "amount must be positive"
    ELSE IF bond = NoBond THEN "no bond"
    ELSE IF bond.identity # requester THEN "requester is not the bond holder"
    ELSE IF ~InI128(bond.bonded_amount - bond.slashed_amount)
         THEN "slashed amount exceeds bonded amount"
    ELSE IF amount > bond.bonded_amount - bond.slashed_amount
         THEN "amount exceeds available balance"
    ELSE IF cooldown_req[requester] # NoReq THEN "cooldown request already pending"
    ELSE "ok"

request_cooldown_withdrawal(requester, amount) ==
    /\ Outcome("request_cooldown_withdrawal",
               request_cooldown_withdrawal_err(requester, amount),
               /\ cooldown_req' = [cooldown_req EXCEPT ![requester] =
                      [requester |-> requester, amount |-> amount,
                       requested_at |-> now]]
               /\ UNCHANGED <<admin, token, bond, lock, callback, fees, fee_bps,
                              penalty_bps, cooldown_period, emergency_config,
                              emergency_records, governance_approval,
                              slash_history, attestations, parameters>>)
    /\ UNCHANGED <<now, frame, foreign>>

\* cooldown::can_withdraw
can_withdraw(t, request_time, period) ==
    IF request_time = 0 THEN FALSE ELSE t >= request_time + period

\* execute_cooldown_withdrawal without the balance checks of lib.rs 1463-1480.
execute_cooldown_withdrawal_err_unvalidated(requester) ==
    IF cooldown_req[requester] = NoReq THEN "no cooldown request"
    ELSE IF ~can_withdraw(now, cooldown_req[requester].requested_at, cooldown_period)
         THEN "cooldown period has not elapsed"
    ELSE IF bond = NoBond THEN "no bond"
    ELSE IF ~InI128(bond.bonded_amount - cooldown_req[requester].amount)
         THEN "withdrawal caused underflow"
    ELSE "ok"

execute_cooldown_withdrawal_err(requester) ==
    IF cooldown_req[requester] = NoReq THEN "no cooldown request"
    ELSE IF ~can_withdraw(now, cooldown_req[requester].requested_at, cooldown_period)
         THEN "cooldown period has not elapsed"
    ELSE IF bond = NoBond THEN "no bond"
    ELSE IF ~InI128(bond.bonded_amount - bond.slashed_amount)
         THEN "slashed amount exceeds bonded amount"
    ELSE IF cooldown_req[requester].amount > bond.bonded_amount - bond.slashed_amount
         THEN "insufficient balance for withdrawal"
    ELSE IF ~InI128(bond.bonded_amount - cooldown_req[requester].amount)
         THEN "withdrawal caused underflow"
    ELSE IF bond.slashed_amount > bond.bonded_amount - cooldown_req[requester].amount
         THEN "slashed amount exceeds bonded amount after withdrawal"
    ELSE "ok"

execute_cooldown_withdrawal(requester) ==
    /\ Outcome("execute_cooldown_withdrawal",
               execute_cooldown_withdrawal_err(requester),
               /\ bond' = [bond EXCEPT !.bonded_amount =
                              bond.bonded_amount - cooldown_req[requester].amount]
               /\ cooldown_req' = [cooldown_req EXCEPT ![requester] = NoReq]
               /\ UNCHANGED <<admin, token, lock, callback, fees, fee_bps,
                              penalty_bps, cooldown_period, emergency_config,
                              emergency_records, governance_approval,
                              slash_history, attestations, parameters>>)
    /\ UNCHANGED <<now, frame, foreign>>

\* cancel_cooldown that reports success and keeps the request.
cancel_cooldown_kept(requester) ==
    /\ Outcome("cancel_cooldown",
               IF cooldown_req[requester] = NoReq
               THEN "no cooldown request to cancel" ELSE "ok",
               UNCHANGED storage)
    /\ UNCHANGED <<now, frame, foreign>>

cancel_cooldown(requester) ==
    /\ Outcome("cancel_cooldown",
               IF cooldown_req[requester] = NoReq
               THEN "no cooldown request to cancel" ELSE "ok",
               /\ cooldown_req' = [cooldown_req EXCEPT ![requester] = NoReq]
               /\ UNCHANGED <<admin, token, bond, lock, callback, fees, fee_bps,
                              penalty_bps, cooldown_period, emergency_config,
                              emergency_records, governance_approval,
                              slash_history, attestations, parameters>>)
    /\ UNCHANGED <<now, frame, foreign>>

\* ------------------------------------------- lib.rs / emergency.rs
set_emergency_config_err(caller, emergency_fee_bps) ==
    IF require_admin_err(caller) # "ok" THEN require_admin_err(caller)
    ELSE IF emergency_fee_bps > BPS_DENOMINATOR
         THEN "emergency fee bps must be <= 10000 (100%)"
    ELSE "ok"

set_emergency_config(caller, governance, emergency_fee_bps, enabled) ==
    /\ Outcome("set_emergency_config",
               set_emergency_config_err(caller, emergency_fee_bps),
               /\ emergency_config' = [governance |-> governance,
                                       emergency_fee_bps |-> emergency_fee_bps,
                                       enabled |-> enabled]
               /\ UNCHANGED <<admin, token, bond, lock, callback, fees, fee_bps,
                              penalty_bps, cooldown_period, cooldown_req,
                              emergency_records, governance_approval,
                              slash_history, attestations, parameters>>)
    /\ UNCHANGED <<now, frame, foreign>>

set_emergency_mode_err(caller, governance) ==
    IF require_admin_err(caller) # "ok" THEN require_admin_err(caller)
    ELSE IF emergency_config = NoConfig THEN "emergency config not set"
    ELSE IF governance # emergency_config.governance THEN "not governance"
    ELSE "ok"

set_emergency_mode(caller, governance, enabled) ==
    /\ Outcome("set_emergency_mode", set_emergency_mode_err(caller, governance),
               /\ emergency_config' = [emergency_config EXCEPT !.enabled = enabled]
               /\ UNCHANGED <<admin, token, bond, lock, callback, fees, fee_bps,
                              penalty_bps, cooldown_period, cooldown_req,
                              emergency_records, governance_approval,
                              slash_history, attestations, parameters>>)
    /\ UNCHANGED <<now, frame, foreign>>

\* A fee rounded up instead of down.
emergency_calculate_fee_ceil(amount, bps) ==
    IF bps = 0 THEN 0
    ELSE TruncDiv(amount * bps + BPS_DENOMINATOR - 1, BPS_DENOMINATOR)

\* emergency::calculate_fee
emergency_calculate_fee(amount, bps) ==
    IF bps = 0 THEN 0 ELSE TruncDiv(amount * bps, BPS_DENOMINATOR)

\* emergency_withdraw without the enabled check of lib.rs 262-264.
emergency_withdraw_err_always_enabled(caller, governance, amount) ==
    IF require_admin_err(caller) # "ok" THEN require_admin_err(caller)
    ELSE IF emergency_config = NoConfig THEN "emergency config not set"
    ELSE IF governance # emergency_config.governance THEN "not governance"
    ELSE IF amount <= 0 THEN "amount must be positive"
    ELSE IF bond = NoBond THEN "no bond"
    ELSE IF ~InI128(bond.bonded_amount - bond.slashed_amount)
         THEN "slashed amount exceeds bonded amount"
    ELSE IF amount > bond.bonded_amount - bond.slashed_amount
         THEN "insufficient balance for withdrawal"
    ELSE IF ~MulInI128(amount, emergency_config.emergency_fee_bps)
            /\ emergency_config.emergency_fee_bps # 0
         THEN "emergency fee multiplication overflow"
    ELSE IF ~InI128(bond.bonded_amount - amount) THEN "withdrawal caused underflow"
    ELSE IF bond.slashed_amount > bond.bonded_amount - amount
         THEN "slashed amount exceeds bonded amount"
    ELSE "ok"

emergency_withdraw_err(caller, governance, amount) ==
    IF require_admin_err(caller) # "ok" THEN require_admin_err(caller)
    ELSE IF emergency_config = NoConfig THEN "emergency config not set"
    ELSE IF governance # emergency_config.governance THEN "not governance"
    ELSE IF ~emergency_config.enabled THEN "emergency mode disabled"
    ELSE IF amount <= 0 THEN "amount must be positive"
    ELSE IF bond = NoBond THEN "no bond"
    ELSE IF ~InI128(bond.bonded_amount - bond.slashed_amount)
         THEN "slashed amount exceeds bonded amount"
    ELSE IF amount > bond.bonded_amount - bond.slashed_amount
         THEN "insufficient balance for withdrawal"
    ELSE IF ~MulInI128(amount, emergency_config.emergency_fee_bps)
            /\ emergency_config.emergency_fee_bps # 0
         THEN "emergency fee multiplication overflow"
    ELSE IF ~InI128(bond.bonded_amount - amount) THEN "withdrawal caused underflow"
    ELSE IF bond.slashed_amount > bond.bonded_amount - amount
         THEN "slashed amount exceeds bonded amount"
    ELSE "ok"

\* emergency::latest_record_id: the id written last, 0 when none.
latest_record_id(records) ==
    IF records = <<>> THEN 0 ELSE records[Len(records)].id

\* emergency::get_record: the record stored last under EmergencyDataKey::
\* Record(id); NoConfig-like absence is reported as [none |-> TRUE].
get_record(records, id) ==
    LET at == {k \in 1..Len(records) : records[k].id = id}
    IN IF at = {} THEN [none |-> TRUE]
       ELSE records[CHOOSE k \in at : \A j \in at : j <= k]

\* A store_record that does not advance the record sequence after the first
\* record.
store_record_same_id(records, identity, gross, fee, net, by_admin, by_gov) ==
    Append(records, [id |-> IF records = <<>> THEN 1
                            ELSE latest_record_id(records),
                     identity |-> identity,
                     gross_amount |-> gross,
                     fee_amount |-> fee,
                     net_amount |-> net,
                     approved_admin |-> by_admin,
                     approved_governance |-> by_gov,
                     timestamp |-> now])

\* emergency::store_record
store_record(records, identity, gross, fee, net, approved_admin, approved_gov) ==
    Append(records, [id |-> Len(records) + 1,
                     identity |-> identity,
                     gross_amount |-> gross,
                     fee_amount |-> fee,
                     net_amount |-> net,
                     approved_admin |-> approved_admin,
                     approved_governance |-> approved_gov,
                     timestamp |-> now])

emergency_withdraw(caller, governance, amount) ==
    /\ Outcome("emergency_withdraw",
               emergency_withdraw_err(caller, governance, amount),
               LET fee == emergency_calculate_fee(amount,
                              emergency_config.emergency_fee_bps)
               IN /\ bond' = [bond EXCEPT !.bonded_amount = bond.bonded_amount - amount]
                  /\ emergency_records' =
                         store_record(emergency_records, bond.identity, amount, fee,
                                      amount - fee, caller, governance)
                  /\ UNCHANGED <<admin, token, lock, callback, fees, fee_bps,
                                 penalty_bps, cooldown_period, cooldown_req,
                                 emergency_config, governance_approval,
                                 slash_history, attestations, parameters>>)
    /\ UNCHANGED <<now, frame, foreign>>

\* ------------------------------------------- lib.rs: attestations
\* access_control::require_verifier: the caller holds the verifier role that
\* register_attester grants (add_verifier_role) and unregister_attester takes
\* away (remove_verifier_role).
require_verifier_err(a) ==
    IF a \in attestations.verifiers THEN "ok" ELSE "not verifier"

\* nonce::get_nonce: the stored Nonce(identity), 0 while absent.
get_nonce(identity) == attestations.nonce[identity]

\* register_attester: the stored admin authorises the call.
register_attester(attester) ==
    /\ Outcome("register_attester",
               IF admin = NoAddr THEN "not initialized" ELSE "ok",
               /\ attestations' =
                     [attestations EXCEPT !.verifiers = @ \cup {attester},
                                          !.attesters = @ \cup {attester}]
               /\ UNCHANGED <<admin, token, bond, lock, callback, fees, fee_bps,
                              penalty_bps, cooldown_period, cooldown_req,
                              emergency_config, emergency_records,
                              governance_approval, slash_history, parameters>>)
    /\ UNCHANGED <<now, frame, foreign>>

unregister_attester(attester) ==
    /\ Outcome("unregister_attester",
               IF admin = NoAddr THEN "not initialized" ELSE "ok",
               /\ attestations' =
                     [attestations EXCEPT !.verifiers = @ \ {attester},
                                          !.attesters = @ \ {attester}]
               /\ UNCHANGED <<admin, token, bond, lock, callback, fees, fee_bps,
                              penalty_bps, cooldown_period, cooldown_req,
                              emergency_config, emergency_records,
                              governance_approval, slash_history, parameters>>)
    /\ UNCHANGED <<now, frame, foreign>>

\* DataKey::DuplicateCheck(attester, subject, attestation_data)
DuplicateCheck(attester, subject, attestation_data) ==
    <<attester, subject, attestation_data>>

\* add_attestation without the duplicate check of lib.rs 525-527.
add_attestation_err_undeduplicated(attester, subject, attestation_data) ==
    IF require_verifier_err(attester) # "ok" THEN require_verifier_err(attester)
    ELSE IF attester \notin attestations.attesters THEN "unauthorized attester"
    ELSE "ok"

add_attestation_err(attester, subject, attestation_data) ==
    IF require_verifier_err(attester) # "ok" THEN require_verifier_err(attester)
    ELSE IF attester \notin attestations.attesters THEN "unauthorized attester"
    ELSE IF DuplicateCheck(attester, subject, attestation_data)
               \in attestations.dup
    THEN "duplicate attestation"
    ELSE "ok"

\* The attestation takes the current AttestationCounter as its id (the first
\* one has id 0) and is stored at position id + 1 of `items`.
add_attestation_stored(st, attester, subject, attestation_data, t) ==
    [st EXCEPT
        !.dup = @ \cup {DuplicateCheck(attester, subject, attestation_data)},
        !.items = Append(@, [id |-> Len(@), attester |-> attester,
                             subject |-> subject,
                             attestation_data |-> attestation_data,
                             timestamp |-> t, revoked |-> FALSE])]

\* add_attestation as lib.rs declares it: four parameters, no nonce.
add_attestation(attester, subject, attestation_data) ==
    /\ Outcome("add_attestation",
               add_attestation_err(attester, subject, attestation_data),
               /\ attestations' =
                     add_attestation_stored(attestations, attester, subject,
                                            attestation_data, now)
               /\ UNCHANGED <<admin, token, bond, lock, callback, fees, fee_bps,
                              penalty_bps, cooldown_period, cooldown_req,
                              emergency_config, emergency_records,
                              governance_approval, slash_history, parameters>>)
    /\ UNCHANGED <<now, frame, foreign>>

\* get_attestation: DataKey::Attestation(attestation_id)
HasAttestation(st, attestation_id) == attestation_id + 1 \in DOMAIN st.items
get_attestation(st, attestation_id) == st.items[attestation_id + 1]

\* get_subject_attestations: the ids pushed for the subject, in order.
get_subject_attestations(st, subject) ==
    {i - 1 : i \in {j \in DOMAIN st.items : st.items[j].subject = subject}}

\* revoke_attestation takes a nonce and never reads it.
revoke_attestation_err(attester, attestation_id, nonce) ==
    IF ~HasAttestation(attestations, attestation_id)
    THEN "attestation not found"
    ELSE IF get_attestation(attestations, attestation_id).attester # attester
    THEN "only original attester can revoke"
    ELSE IF get_attestation(attestations, attestation_id).revoked
    THEN "attestation already revoked"
    ELSE "ok"

revoke_attestation_stored(st, attestation_id) ==
    [st EXCEPT !.items[attestation_id + 1].revoked = TRUE]

revoke_attestation(attester, attestation_id, nonce) ==
    /\ Outcome("revoke_attestation",
               revoke_attestation_err(attester, attestation_id, nonce),
               /\ attestations' =
                     revoke_attestation_stored(attestations, attestation_id)
               /\ UNCHANGED <<admin, token, bond, lock, callback, fees, fee_bps,
                              penalty_bps, cooldown_period, cooldown_req,
                              emergency_config, emergency_records,
                              governance_approval, slash_history, parameters>>)
    /\ UNCHANGED <<now, frame, foreign>>

\* ------------------------------------------------ lib.rs / tiered_bond
\* tiered_bond thresholds, scaled to the model's amount range (order
\* preserved: 0 < TIER_BRONZE_MAX < TIER_SILVER_MAX < TIER_GOLD_MAX <= i128::MAX).
TIER_BRONZE_MAX == 1
TIER_SILVER_MAX == 2
TIER_GOLD_MAX == 3

\* tiered_bond::get_tier_for_amount: each threshold is the inclusive lower
\* bound of the next tier.
get_tier_for_amount(amount) ==
    IF amount < TIER_BRONZE_MAX THEN "Bronze"
    ELSE IF amount < TIER_SILVER_MAX THEN "Silver"
    ELSE IF amount < TIER_GOLD_MAX THEN "Gold"
    ELSE "Platinum"

\* get_tier reading the withdrawable balance instead of bonded_amount.
get_tier_of_available ==
    get_tier_for_amount(bond.bonded_amount - bond.slashed_amount)

\* get_tier (panics with 'no bond' through get_identity_state otherwise).
get_tier == get_tier_for_amount(bond.bonded_amount)

\* ---------------------------------------------------------- parameters.rs
\* Bounds and defaults of the parameter store.  Fee rates are in basis
\* points and cooldowns in seconds, as in the source; tier thresholds are in
\* units of 10^8 (every threshold constant of the source is a multiple).
MIN_PROTOCOL_FEE_BPS == 0
MAX_PROTOCOL_FEE_BPS == 1000
DEFAULT_PROTOCOL_FEE_BPS == 50
MIN_ATTESTATION_FEE_BPS == 0
MAX_ATTESTATION_FEE_BPS == 500
DEFAULT_ATTESTATION_FEE_BPS == 10
MIN_WITHDRAWAL_COOLDOWN_SECS == 0
MAX_WITHDRAWAL_COOLDOWN_SECS == 2592000
DEFAULT_WITHDRAWAL_COOLDOWN_SECS == 604800
MIN_SLASH_COOLDOWN_SECS == 0
MAX_SLASH_COOLDOWN_SECS == 604800
DEFAULT_SLASH_COOLDOWN_SECS == 86400
MIN_BRONZE_THRESHOLD == 0
MAX_BRONZE_THRESHOLD == 10000
DEFAULT_BRONZE_THRESHOLD == 1
MIN_SILVER_THRESHOLD == 1
MAX_SILVER_THRESHOLD == 100000
DEFAULT_SILVER_THRESHOLD == 10
MIN_GOLD_THRESHOLD == 10
MAX_GOLD_THRESHOLD == 1000000
DEFAULT_GOLD_THRESHOLD == 100
MIN_PLATINUM_THRESHOLD == 100
MAX_PLATINUM_THRESHOLD == 10000000
DEFAULT_PLATINUM_THRESHOLD == 1000

ParamMin(k) ==
    CASE k = "ProtocolFeeBps" -> MIN_PROTOCOL_FEE_BPS
      [] k = "AttestationFeeBps" -> MIN_ATTESTATION_FEE_BPS
      [] k = "WithdrawalCooldownSecs" -> MIN_WITHDRAWAL_COOLDOWN_SECS
      [] k = "SlashCooldownSecs" -> MIN_SLASH_COOLDOWN_SECS
      [] k = "BronzeThreshold" -> MIN_BRONZE_THRESHOLD
      [] k = "SilverThreshold" -> MIN_SILVER_THRESHOLD
      [] k = "GoldThreshold" -> MIN_GOLD_THRESHOLD
      [] k = "PlatinumThreshold" -> MIN_PLATINUM_THRESHOLD

ParamMax(k) ==
    CASE k = "ProtocolFeeBps" -> MAX_PROTOCOL_FEE_BPS
      [] k = "AttestationFeeBps" -> MAX_ATTESTATION_FEE_BPS
      [] k = "WithdrawalCooldownSecs" -> MAX_WITHDRAWAL_COOLDOWN_SECS
      [] k = "SlashCooldownSecs" -> MAX_SLASH_COOLDOWN_SECS
      [] k = "BronzeThreshold" -> MAX_BRONZE_THRESHOLD
      [] k = "SilverThreshold" -> MAX_SILVER_THRESHOLD
      [] k = "GoldThreshold" -> MAX_GOLD_THRESHOLD
      [] k = "PlatinumThreshold" -> MAX_PLATINUM_THRESHOLD

ParamDefault(k) ==
    CASE k = "ProtocolFeeBps" -> DEFAULT_PROTOCOL_FEE_BPS
      [] k = "AttestationFeeBps" -> DEFAULT_ATTESTATION_FEE_BPS
      [] k = "WithdrawalCooldownSecs" -> DEFAULT_WITHDRAWAL_COOLDOWN_SECS
      [] k = "SlashCooldownSecs" -> DEFAULT_SLASH_COOLDOWN_SECS
      [] k = "BronzeThreshold" -> DEFAULT_BRONZE_THRESHOLD
      [] k = "SilverThreshold" -> DEFAULT_SILVER_THRESHOLD
      [] k = "GoldThreshold" -> DEFAULT_GOLD_THRESHOLD
      [] k = "PlatinumThreshold" -> DEFAULT_PLATINUM_THRESHOLD

\* The name the setter of key k uses in its panic message and as operation.
ParamName(k) ==
    CASE k = "ProtocolFeeBps" -> "protocol_fee_bps"
      [] k = "AttestationFeeBps" -> "attestation_fee_bps"
      [] k = "WithdrawalCooldownSecs" -> "withdrawal_cooldown_secs"
      [] k = "SlashCooldownSecs" -> "slash_cooldown_secs"
      [] k = "BronzeThreshold" -> "bronze_threshold"
      [] k = "SilverThreshold" -> "silver_threshold"
      [] k = "GoldThreshold" -> "gold_threshold"
      [] k = "PlatinumThreshold" -> "platinum_threshold"

\* get_protocol_fee_bps .. get_platinum_threshold: the stored value, or the
\* default while the key is absent.
get_parameter(store, k) ==
    IF store[k] = Unset THEN ParamDefault(k) ELSE store[k]

\* set_protocol_fee_bps .. set_platinum_threshold: validate_admin compares
\* the `admin` argument with the stored admin, then the bounds are checked.
set_parameter_err(k, admin_arg, value) ==
    IF admin = NoAddr THEN "not initialized"
    ELSE IF admin_arg # admin THEN "not admin"
    ELSE IF value < ParamMin(k) \/ value > ParamMax(k) THEN "out of bounds"
    ELSE "ok"

\* The setter of key k, invoked by `invoker` with the arguments (admin_arg,
\* value).  No setter calls require_auth, neither in lib.rs 1125-1197 nor in
\* parameters.rs, so the invoker is not looked at.
set_parameter(k, invoker, admin_arg, value) ==
    /\ Outcome(ParamName(k), set_parameter_err(k, admin_arg, value),
               /\ parameters' = [parameters EXCEPT ![k] = value]
               /\ UNCHANGED <<admin, token, bond, lock, callback, fees, fee_bps,
                              penalty_bps, cooldown_period, cooldown_req,
                              emergency_config, emergency_records,
                              governance_approval, slash_history,
                              attestations>>)
    /\ UNCHANGED <<now, frame, foreign>>

set_protocol_fee_bps(invoker, admin_arg, value) ==
    set_parameter("ProtocolFeeBps", invoker, admin_arg, value)
set_attestation_fee_bps(invoker, admin_arg, value) ==
    set_parameter("AttestationFeeBps", invoker, admin_arg, value)
set_withdrawal_cooldown_secs(invoker, admin_arg, value) ==
    set_parameter("WithdrawalCooldownSecs", invoker, admin_arg, value)
set_slash_cooldown_secs(invoker, admin_arg, value) ==
    set_parameter("SlashCooldownSecs", invoker, admin_arg, value)
set_bronze_threshold(invoker, admin_arg, value) ==
    set_parameter("BronzeThreshold", invoker, admin_arg, value)
set_silver_threshold(invoker, admin_arg, value) ==
    set_parameter("SilverThreshold", invoker, admin_arg, value)
set_gold_threshold(invoker, admin_arg, value) ==
    set_parameter("GoldThreshold", invoker, admin_arg, value)
set_platinum_threshold(invoker, admin_arg, value) ==
    set_parameter("PlatinumThreshold", invoker, admin_arg, value)

\* ------------------------------------------------ fixed_duration_bond/lib.rs
\* The token contract is taken to honour every transfer the contract
\* requests; bond_start + duration_secs stays far below u64::MAX.

\* A handler of fixed_duration_bond commits `next` or panics and is rolled
\* back; the other contracts' storage is not touched.
FixedOutcome(op, err, next) ==
    /\ IF err = "ok"
       THEN fixed_bond' = next /\ last' = Ok(op)
       ELSE UNCHANGED fixed_bond /\ last' = Fail(op, err)
    /\ UNCHANGED <<storage, now, frame, multisig>>

fixed_require_admin_err(caller) ==
    IF fixed_bond.admin = NoAddr THEN "not initialized"
    ELSE IF fixed_bond.admin # caller THEN "unauthorized"
    ELSE "ok"

fixed_apply_bps(amount, bps) ==
    [fee |-> TruncDiv(amount * bps, BPS_DENOMINATOR),
     net |-> amount - TruncDiv(amount * bps, BPS_DENOMINATOR)]

fixed_initialize(admin_arg) ==
    FixedOutcome("initialize",
                 IF fixed_bond.admin # NoAddr THEN "already initialized"
                 ELSE "ok",
                 [fixed_bond EXCEPT !.admin = admin_arg, !.token = TRUE])

fixed_set_fee_config(caller, bps) ==
    FixedOutcome("set_fee_config", fixed_require_admin_err(caller),
                 [fixed_bond EXCEPT !.fee_bps = bps])

fixed_set_penalty_config(caller, base_penalty_bps) ==
    FixedOutcome("set_penalty_config", fixed_require_admin_err(caller),
                 [fixed_bond EXCEPT !.penalty_bps = base_penalty_bps])

fixed_collect_fees(caller) ==
    FixedOutcome("collect_fees",
                 IF fixed_require_admin_err(caller) # "ok"
                 THEN fixed_require_admin_err(caller)
                 ELSE IF fixed_bond.accrued_fees = 0 THEN "no fees to collect"
                 ELSE "ok",
                 [fixed_bond EXCEPT !.accrued_fees = 0])

FixedActive(owner) ==
    fixed_bond.bonds[owner] # NoBond /\ fixed_bond.bonds[owner].active

\* create_bond: the checks before the token transfer, in order.
fixed_create_bond_err(owner, amount, duration_secs) ==
    IF amount <= 0 THEN "amount must be positive"
    ELSE IF duration_secs = 0 THEN "duration must be positive"
    ELSE IF FixedActive(owner) THEN "bond already active for this owner"
    ELSE IF ~fixed_bond.token THEN "token not set"
    ELSE "ok"

\* create_bond: the fee, if any, is added to AccruedFees (an unchecked
\* addition) and the net amount is stored as an active bond of the owner.
fixed_create_bond(owner, amount, duration_secs) ==
    LET cut == IF fixed_bond.fee_bps > 0
               THEN fixed_apply_bps(amount, fixed_bond.fee_bps)
               ELSE [fee |-> 0, net |-> amount]
    IN \E acc \in Unchecked(fixed_bond.accrued_fees + cut.fee) :
          FixedOutcome(
              "create_bond",
              IF fixed_create_bond_err(owner, amount, duration_secs) # "ok"
              THEN fixed_create_bond_err(owner, amount, duration_secs)
              ELSE IF acc.panic THEN "attempt to add with overflow"
              ELSE "ok",
              [fixed_bond EXCEPT
                  !.accrued_fees = acc.val,
                  !.bonds[owner] =
                      [owner |-> owner, amount |-> cut.net,
                       bond_start |-> now, bond_duration |-> duration_secs,
                       bond_expiry |-> now + duration_secs,
                       penalty_bps |-> fixed_bond.penalty_bps,
                       active |-> TRUE]])

fixed_withdraw_err_repeatable(owner) ==
    IF fixed_bond.bonds[owner] = NoBond THEN "no active bond found"
    ELSE IF now < fixed_bond.bonds[owner].bond_expiry
    THEN "lock period has not elapsed yet"
    ELSE IF ~fixed_bond.token THEN "token not set"
    ELSE "ok"

fixed_withdraw_err(owner) ==
    IF ~FixedActive(owner) THEN "no active bond found"
    ELSE IF now < fixed_bond.bonds[owner].bond_expiry
    THEN "lock period has not elapsed yet"
    ELSE IF ~fixed_bond.token THEN "token not set"
    ELSE "ok"

\* withdraw: the bond is stored inactive, then its amount is transferred.
fixed_withdraw(owner) ==
    FixedOutcome("withdraw", fixed_withdraw_err(owner),
                 [fixed_bond EXCEPT !.bonds[owner].active = FALSE])

fixed_withdraw_early_err(owner) ==
    IF ~FixedActive(owner) THEN "no active bond found"
    ELSE IF now >= fixed_bond.bonds[owner].bond_expiry
    THEN "bond has matured; use withdraw instead"
    ELSE IF fixed_bond.bonds[owner].penalty_bps = 0
    THEN "early-exit penalty not configured"
    ELSE IF ~fixed_bond.token THEN "token not set"
    ELSE "ok"

\* withdraw_early: the bond is stored inactive, then the net amount is
\* transferred to the owner and the penalty to the treasury.
fixed_withdraw_early(owner) ==
    FixedOutcome("withdraw_early", fixed_withdraw_early_err(owner),
                 [fixed_bond EXCEPT !.bonds[owner].active = FALSE])

\* ------------------------------------------------ credence_multisig/multisig.rs
\* A handler of credence_multisig commits `next` or panics and is rolled
\* back; the other contracts' storage is not touched.
MultisigOutcome(op, err, next) ==
    /\ IF err = "ok"
       THEN multisig' = next /\ last' = Ok(op)
       ELSE UNCHANGED multisig /\ last' = Fail(op, err)
    /\ UNCHANGED <<storage, now, frame, fixed_bond>>

multisig_require_admin_err(admin_arg) ==
    IF multisig.admin = NoAddr THEN "not initialized"
    ELSE IF multisig.admin # admin_arg THEN "not admin"
    ELSE "ok"

\* Proposal::expires_at > 0 && timestamp >= expires_at
Expired(proposal) == proposal.expires_at > 0 /\ now >= proposal.expires_at

\* initialize: authorised by the `admin` argument itself; there is no
\* already-initialised check.  Signer flags, proposals and signatures of an
\* earlier initialisation stay in storage.
multisig_initialize(admin_arg, signers, threshold) ==
    MultisigOutcome(
        "initialize",
        IF signers = <<>> THEN "signers list cannot be empty"
        ELSE IF threshold = 0 \/ threshold > Len(signers)
        THEN "invalid threshold"
        ELSE "ok",
        [multisig EXCEPT !.admin = admin_arg,
                         !.signer_count = Len(signers),
                         !.threshold = threshold,
                         !.proposal_counter = 0,
                         !.signer_list = signers,
                         !.signers = @ \cup {signers[i] : i \in DOMAIN signers}])

multisig_add_signer(admin_arg, signer) ==
    MultisigOutcome(
        "add_signer",
        IF multisig_require_admin_err(admin_arg) # "ok"
        THEN multisig_require_admin_err(admin_arg)
        ELSE IF signer \in multisig.signers THEN "signer already exists"
        ELSE "ok",
        [multisig EXCEPT !.signers = @ \cup {signer},
                         !.signer_count = @ + 1,
                         !.signer_list = Append(@, signer)])

\* remove_signer: the flag, the count, the list and if need be the
\* threshold are updated; Signature and SignatureCount entries are not.
multisig_remove_signer(admin_arg, signer) ==
    MultisigOutcome(
        "remove_signer",
        IF multisig_require_admin_err(admin_arg) # "ok"
        THEN multisig_require_admin_err(admin_arg)
        ELSE IF signer \notin multisig.signers THEN "signer does not exist"
        ELSE IF multisig.signer_count <= 1 THEN "cannot remove last signer"
        ELSE "ok",
        [multisig EXCEPT !.signers = @ \ {signer},
                         !.signer_count = @ - 1,
                         !.signer_list = SelectSeq(@, LAMBDA y : y # signer),
                         !.threshold = Min(@, multisig.signer_count - 1)])

multisig_set_threshold(admin_arg, threshold) ==
    MultisigOutcome(
        "set_threshold",
        IF multisig_require_admin_err(admin_arg) # "ok"
        THEN multisig_require_admin_err(admin_arg)
        ELSE IF threshold = 0 \/ threshold > multisig.signer_count
        THEN "invalid threshold"
        ELSE "ok",
        [multisig EXCEPT !.threshold = threshold])

\* submit_proposal (with a non-empty description): the proposal takes the
\* id ProposalCounter holds and its SignatureCount is set to 0.  Of the
\* Proposal the fields the handlers read later are kept.
multisig_submit_proposal(proposer, expires_at) ==
    MultisigOutcome(
        "submit_proposal",
        IF proposer \notin multisig.signers THEN "not a signer" ELSE "ok",
        [multisig EXCEPT
            !.proposal_counter = @ + 1,
            !.proposals[multisig.proposal_counter] =
                [status |-> "Pending", expires_at |-> expires_at],
            !.signature_count[multisig.proposal_counter] = 0])

HasMultisigProposal(proposal_id) ==
    /\ proposal_id \in DOMAIN multisig.proposals
    /\ multisig.proposals[proposal_id] # NoProposal

multisig_sign_proposal(signer, proposal_id) ==
    MultisigOutcome(
        "sign_proposal",
        IF signer \notin multisig.signers THEN "not a signer"
        ELSE IF ~HasMultisigProposal(proposal_id) THEN "proposal not found"
        ELSE IF multisig.proposals[proposal_id].status # "Pending"
        THEN "proposal is not pending"
        ELSE IF Expired(multisig.proposals[proposal_id])
        THEN "proposal has expired"
        ELSE IF <<proposal_id, signer>> \in multisig.signatures
        THEN "already signed"
        ELSE "ok",
        [multisig EXCEPT
            !.signatures = @ \cup {<<proposal_id, signer>>},
            !.signature_count[proposal_id] = @ + 1])

\* execute_proposal: callable by anyone.  On an expired proposal the status
\* Expired is written and then the call panics, which undoes the write.
multisig_execute_proposal(proposal_id) ==
    MultisigOutcome(
        "execute_proposal",
        IF ~HasMultisigProposal(proposal_id) THEN "proposal not found"
        ELSE IF multisig.proposals[proposal_id].status # "Pending"
        THEN "proposal is not pending"
        ELSE IF Expired(multisig.proposals[proposal_id])
        THEN "proposal has expired"
        ELSE IF multisig.signature_count[proposal_id] < multisig.threshold
        THEN "insufficient signatures to execute"
        ELSE "ok",
        [multisig EXCEPT !.proposals[proposal_id].status = "Executed"])

multisig_reject_proposal(admin_arg, proposal_id) ==
    MultisigOutcome(
        "reject_proposal",
        IF multisig_require_admin_err(admin_arg) # "ok"
        THEN multisig_require_admin_err(admin_arg)
        ELSE IF ~HasMultisigProposal(proposal_id) THEN "proposal not found"
        ELSE IF multisig.proposals[proposal_id].status # "Pending"
        THEN "proposal is not pending"
        ELSE "ok",
        [multisig EXCEPT !.proposals[proposal_id].status = "Rejected"])

Tick ==
    /\ now < MaxTime
    /\ now' = now + 1
    /\ UNCHANGED <<storage, frame, foreign, last>>

\* ------------------------------------------------------ specification
\* Inputs of the ledger specification.
Admins == {"admin"}
Identities == {"alice"}
Callers == {"admin", "alice"}
EmergencyFeeBps == {5000}

\* A call that commits (a call that panics changes nothing in storage).
Committed(A) == A /\ last'.ok /\ UNCHANGED hist

Next ==
    \/ Committed(\E a \in Admins : initialize(a))
    \/ Committed(\E a \in Callers : set_token(a))
    \/ Committed(\E id \in Identities, amt \in Amounts, d \in Durations :
          create_bond_with_rolling(id, amt, d, FALSE, 0))
    \/ Committed(\E id \in Identities, amt \in Amounts, d \in Durations :
          create_bond(id, amt, d, FALSE, 0))
    \/ Committed(\E amt \in Amounts : top_up(amt))
    \/ Committed(\E amt \in Amounts : withdraw_bond(amt))
    \/ Committed(\E amt \in Amounts : withdraw_early(amt))
    \/ Committed(\E a \in Callers, amt \in Amounts : slash(a, amt))
    \/ Committed(\E a \in Callers, amt \in Amounts : unslash_bond(a, amt))
    \/ Committed(\E a \in Callers, amt \in Amounts : slash_bond(a, amt))
    \/ Committed(\E id \in Callers : withdraw_bond_full(id))
    \/ Committed(\E id \in Callers, amt \in Amounts :
          request_cooldown_withdrawal(id, amt))
    \/ Committed(\E id \in Callers : execute_cooldown_withdrawal(id))
    \/ Committed(\E id \in Callers : cancel_cooldown(id))
    \/ Committed(\E a \in Callers, bps \in EmergencyFeeBps :
          set_emergency_config(a, "gov", bps, TRUE))
    \/ Committed(/\ Len(emergency_records) < MaxRecords
                 /\ \E a \in Callers, amt \in Amounts :
                       emergency_withdraw(a, "gov", amt))
    \/ Tick /\ UNCHANGED hist

Spec == Init /\ [][Next]_vars

\* ---------------------------------------- specification: direct slashing
\* Direct admin slashes applied one after the other to a freshly created
\* bond; hist logs every slash that reached the bond (admin caller, bond
\* present) with its amount, its outcome and the slashed_amount it found.
SlashLogged(caller, amount) ==
    /\ Len(hist) < MaxSlashes
    /\ slash(caller, amount)
    /\ hist' = IF validate_admin_err(caller) = "ok" /\ HasBond
               THEN Append(hist, [amount |-> amount, ok |-> last'.ok,
                                  before |-> bond.slashed_amount])
               ELSE hist

NextSlash ==
    \/ (\E a \in Admins : initialize(a)) /\ UNCHANGED hist
    \/ (\E a \in Callers : set_token(a)) /\ UNCHANGED hist
    \/ (\E id \in Identities, amt \in Amounts, d \in Durations :
          create_bond_with_rolling(id, amt, d, FALSE, 0)) /\ hist' = <<>>
    \/ \E a \in Callers, amt \in Amounts : SlashLogged(a, amt)

SpecSlash == Init /\ [][NextSlash]_vars

\* ------------------------------------------------ governance-gated slash
\* governance_approval::initialize_governance: roster and quorum are stored.
governance_initialize_err(governors, quorum_bps, min_governors) ==
    IF quorum_bps > BPS_DENOMINATOR THEN "invalid quorum"
    ELSE IF Cardinality(governors) < min_governors
    THEN "not enough governors"
    ELSE "ok"

\* CredenceBond::initialize_governance
initialize_governance(caller, governors, quorum_bps, min_governors) ==
    /\ Outcome("initialize_governance",
               IF require_admin_err(caller) # "ok"
               THEN require_admin_err(caller)
               ELSE governance_initialize_err(governors, quorum_bps,
                                              min_governors),
               /\ governance_approval' =
                     [governance_approval EXCEPT !.governors = governors,
                                                 !.quorum_bps = quorum_bps,
                                                 !.min_governors = min_governors]
               /\ UNCHANGED <<admin, token, bond, lock, callback, fees,
                              fee_bps, penalty_bps, cooldown_period,
                              cooldown_req, emergency_config,
                              emergency_records, slash_history, attestations, parameters>>)
    /\ UNCHANGED <<now, frame, foreign>>

\* governance_approval::get_governors
get_governors == governance_approval.governors

\* governance_approval::propose_slash: the proposal snapshots the current
\* quorum and roster; its id is its position in the list.
governance_propose_slash(g, proposer, amount) ==
    [g EXCEPT !.proposals =
        Append(g.proposals,
               [amount |-> amount, proposed_by |-> proposer,
                quorum_bps |-> g.quorum_bps, governors |-> g.governors,
                executed |-> FALSE])]

\* CredenceBond::propose_slash: admin or a registered governor.
propose_slash_err(proposer) ==
    IF admin = NoAddr THEN "not initialized"
    ELSE IF proposer # admin /\ proposer \notin get_governors
    THEN "not admin or governor"
    ELSE "ok"

propose_slash(proposer, amount) ==
    /\ Len(governance_approval.proposals) < MaxProposals
    /\ Outcome("propose_slash", propose_slash_err(proposer),
               /\ governance_approval' =
                     governance_propose_slash(governance_approval, proposer,
                                              amount)
               /\ UNCHANGED <<admin, token, bond, lock, callback, fees,
                              fee_bps, penalty_bps, cooldown_period,
                              cooldown_req, emergency_config,
                              emergency_records, slash_history, attestations, parameters>>)
    /\ UNCHANGED <<now, frame, foreign>>

\* governance_approval::get_proposal
HasProposal(proposal_id) ==
    proposal_id \in 1..Len(governance_approval.proposals)
get_proposal(proposal_id) == governance_approval.proposals[proposal_id]

\* governance_approval::get_delegate: the address voting for a governor.
Representative(g, governor) ==
    IF \E d \in g.delegates : d[1] = governor
    THEN (CHOOSE d \in g.delegates : d[1] = governor)[2]
    ELSE governor

\* governance_approval::vote: one vote per voter and proposal; the voter is
\* a governor of the proposal's roster or the delegate of one.
governance_vote_err(g, voter, proposal_id) ==
    IF proposal_id \notin 1..Len(g.proposals) THEN "proposal not found"
    ELSE IF g.proposals[proposal_id].executed THEN "proposal already executed"
    ELSE IF \A gv \in g.proposals[proposal_id].governors :
               voter # gv /\ voter # Representative(g, gv)
    THEN "not a governor"
    ELSE IF \E v \in g.votes : v.id = proposal_id /\ v.voter = voter
    THEN "already voted"
    ELSE "ok"

\* CredenceBond::governance_vote
governance_vote(voter, proposal_id, approve) ==
    /\ Outcome("governance_vote",
               governance_vote_err(governance_approval, voter, proposal_id),
               /\ governance_approval' =
                     [governance_approval EXCEPT !.votes =
                         @ \cup {[id |-> proposal_id, voter |-> voter,
                                  approve |-> approve]}]
               /\ UNCHANGED <<admin, token, bond, lock, callback, fees,
                              fee_bps, penalty_bps, cooldown_period,
                              cooldown_req, emergency_config,
                              emergency_records, slash_history, attestations, parameters>>)
    /\ UNCHANGED <<now, frame, foreign>>

\* CredenceBond::governance_delegate -> governance_approval::delegate
governance_delegate(governor, to) ==
    /\ Outcome("governance_delegate",
               IF governor \in get_governors THEN "ok" ELSE "not a governor",
               /\ governance_approval' =
                     [governance_approval EXCEPT !.delegates =
                         {d \in @ : d[1] # governor} \cup {<<governor, to>>}]
               /\ UNCHANGED <<admin, token, bond, lock, callback, fees,
                              fee_bps, penalty_bps, cooldown_period,
                              cooldown_req, emergency_config,
                              emergency_records, slash_history, attestations, parameters>>)
    /\ UNCHANGED <<now, frame, foreign>>

\* Approvals of a proposal: roster members whose representative approved.
Approvals(g, proposal_id) ==
    {gv \in g.proposals[proposal_id].governors :
        \E v \in g.votes : /\ v.id = proposal_id
                           /\ v.voter = Representative(g, gv)
                           /\ v.approve}

\* Quorum: approvals / roster >= quorum_bps / 10000.
QuorumMet(g, proposal_id) ==
    Cardinality(Approvals(g, proposal_id)) * BPS_DENOMINATOR
        >= g.proposals[proposal_id].quorum_bps
             * Cardinality(g.proposals[proposal_id].governors)

\* governance_approval::execute_slash_if_approved: true, and the proposal
\* consumed, iff quorum is met and the proposal was not executed before.
execute_slash_if_approved(g, proposal_id) ==
    QuorumMet(g, proposal_id) /\ ~g.proposals[proposal_id].executed

execute_slash_with_governance_unapproved(proposer, proposal_id) ==
    IF ~HasProposal(proposal_id) THEN "proposal not found"
    ELSE IF get_proposal(proposal_id).proposed_by # proposer
    THEN "only proposer can execute"
    ELSE slashing_slash_bond_err(proposer, get_proposal(proposal_id).amount)

execute_slash_with_governance_anyone(proposer, proposal_id) ==
    IF ~HasProposal(proposal_id) THEN "proposal not found"
    ELSE IF ~execute_slash_if_approved(governance_approval, proposal_id)
    THEN "proposal not approved"
    ELSE slashing_slash_bond_err(proposer, get_proposal(proposal_id).amount)

execute_slash_with_governance_replayed(proposer, proposal_id) ==
    IF ~HasProposal(proposal_id) THEN "proposal not found"
    ELSE IF get_proposal(proposal_id).proposed_by # proposer
    THEN "only proposer can execute"
    ELSE IF ~QuorumMet(governance_approval, proposal_id)
    THEN "proposal not approved"
    ELSE slashing_slash_bond_err(proposer, get_proposal(proposal_id).amount)

\* CredenceBond::execute_slash_with_governance: the checks, in order.
execute_slash_with_governance_err(proposer, proposal_id) ==
    IF ~HasProposal(proposal_id) THEN "proposal not found"
    ELSE IF get_proposal(proposal_id).proposed_by # proposer
    THEN "only proposer can execute"
    ELSE IF ~execute_slash_if_approved(governance_approval, proposal_id)
    THEN "proposal not approved"
    ELSE slashing_slash_bond_err(proposer, get_proposal(proposal_id).amount)

\* CredenceBond::execute_slash_with_governance: the proposal is consumed and
\* slashing::slash_bond applies its amount.
execute_slash_with_governance(proposer, proposal_id) ==
    /\ Outcome("execute_slash_with_governance",
               execute_slash_with_governance_err(proposer, proposal_id),
               /\ governance_approval' =
                     [governance_approval EXCEPT
                         !.proposals[proposal_id].executed = TRUE]
               /\ bond' = slashing_slash_bond_updated(
                              bond, get_proposal(proposal_id).amount)
               /\ UNCHANGED <<admin, token, lock, callback, fees, fee_bps,
                              penalty_bps, cooldown_period, cooldown_req,
                              emergency_config, emergency_records,
                              slash_history, attestations, parameters>>)
    /\ UNCHANGED <<now, frame, foreign>>

\* ------------------------------------------ specification: governance
\* `hist` holds the latest call of execute_slash_with_governance on an
\* existing proposal (what held before it, what it changed), how often each
\* proposal raised slashed_amount, and the proposals refused for want of
\* quorum.
GovernorSets == {{"gov", "alice"}}
QuorumBps == {5000, 10000}
ProposalAmounts == {1}
\* The admin and a governor who is not the admin.
Proposers == {"admin", "gov"}
ProposalIds == 1..MaxProposals

\* The log before any call: no proposal refused, none applied.
NoCalls == [applied |-> [id \in ProposalIds |-> 0], refused |-> {}]

ExecuteLogged(proposer, proposal_id) ==
    /\ execute_slash_with_governance(proposer, proposal_id)
    /\ hist' =
          IF HasProposal(proposal_id)
          THEN LET prev == IF hist = <<>> THEN NoCalls ELSE hist[1]
                   increased == HasBond /\ bond'.slashed_amount
                                              > bond.slashed_amount
               IN <<[id |-> proposal_id, proposer |-> proposer,
                     ok |-> last'.ok, err |-> last'.err,
                     by_proposer |->
                         get_proposal(proposal_id).proposed_by = proposer,
                     approved |->
                         QuorumMet(governance_approval, proposal_id),
                     executed |-> get_proposal(proposal_id).executed,
                     slash_err |->
                         slashing_slash_bond_err(
                             proposer, get_proposal(proposal_id).amount),
                     bond_changed |-> bond' # bond,
                     governance_changed |->
                         governance_approval' # governance_approval,
                     applied |->
                         [prev.applied EXCEPT ![proposal_id] =
                             IF increased THEN @ + 1 ELSE @],
                     refused |->
                         IF last'.err = "proposal not approved"
                         THEN prev.refused \cup {proposal_id}
                         ELSE prev.refused]>>
          ELSE hist

NextGov ==
    \/ Committed(\E a \in Admins : initialize(a))
    \/ Committed(\E a \in Admins : set_token(a))
    \/ Committed(create_bond_with_rolling("alice", 2, 0, FALSE, 0))
    \/ Committed(\E a \in Admins, gs \in GovernorSets, q \in QuorumBps :
                    initialize_governance(a, gs, q, 2))
    \/ Committed(\E a \in Proposers, amt \in ProposalAmounts :
                    propose_slash(a, amt))
    \/ Committed(\E v \in Addr, id \in ProposalIds, approve \in BOOLEAN :
                    governance_vote(v, id, approve))
    \/ \E a \in Proposers, id \in ProposalIds : ExecuteLogged(a, id)

SpecGov == Init /\ [][NextGov]_vars

\* ------------------------------------ specification: external calls
\* A handler that calls out (token transfer, registered callback) is
\* suspended in `frame` while the callee runs.  The callee may call back into
\* the contract (nested calls run to completion), then it returns or traps; a
\* trap rolls the whole invocation back to the snapshot.
NoWrite == [nowrite |-> TRUE]
Guarded == {"withdraw_bond_full", "slash_bond", "collect_fees"}
Pending(op) == [op |-> op, ok |-> FALSE, err |-> "in external call"]

Snapshot ==
    [admin |-> admin, token |-> token, bond |-> bond, lock |-> lock,
     callback |-> callback, fees |-> fees, fee_bps |-> fee_bps,
     penalty_bps |-> penalty_bps, cooldown_period |-> cooldown_period,
     cooldown_req |-> cooldown_req, emergency_config |-> emergency_config,
     emergency_records |-> emergency_records,
     governance_approval |-> governance_approval,
     slash_history |-> slash_history, attestations |-> attestations,
     parameters |-> parameters]

Restore(snap) ==
    /\ admin' = snap.admin /\ token' = snap.token /\ bond' = snap.bond
    /\ lock' = snap.lock /\ callback' = snap.callback /\ fees' = snap.fees
    /\ fee_bps' = snap.fee_bps /\ penalty_bps' = snap.penalty_bps
    /\ cooldown_period' = snap.cooldown_period
    /\ cooldown_req' = snap.cooldown_req
    /\ emergency_config' = snap.emergency_config
    /\ emergency_records' = snap.emergency_records
    /\ governance_approval' = snap.governance_approval
    /\ slash_history' = snap.slash_history
    /\ attestations' = snap.attestations
    /\ parameters' = snap.parameters

\* The handler `op` passes its checks, performs `effect` (its writes that
\* precede the external call) and is suspended; `pending` is the bond it
\* writes once the callee has returned (NoWrite if none), `release` tells
\* whether it then releases the lock.
Suspend(op, err, effect, pending, release) ==
    /\ frame = NoFrame
    /\ IF err = "ok"
       THEN /\ effect
            /\ frame' = [op |-> op, pending |-> pending, release |-> release,
                         snap |-> Snapshot]
            /\ last' = Pending(op)
            /\ hist' = IF op \in Guarded THEN <<op>> ELSE <<>>
       ELSE /\ UNCHANGED <<storage, frame, hist>>
            /\ last' = Fail(op, err)
    /\ UNCHANGED <<now, foreign>>

\* lib.rs 697-721: transfer first, bond written afterwards.
call_withdraw_bond(amount) ==
    Suspend("withdraw_bond", withdraw_bond_err(amount), UNCHANGED storage,
            IF HasBond THEN withdraw_bond_updated(bond, amount) ELSE NoWrite, FALSE)

\* lib.rs 759-784
call_withdraw_early(amount) ==
    Suspend("withdraw_early", withdraw_early_err(amount), UNCHANGED storage,
            IF HasBond THEN withdraw_early_updated(bond, amount) ELSE NoWrite, FALSE)

\* lib.rs 1007-1023
call_top_up(amount) ==
    Suspend("top_up", top_up_err(amount), UNCHANGED storage,
            IF HasBond THEN top_up_updated(bond, amount) ELSE NoWrite, FALSE)

\* lib.rs 444-481: transfer_from first, bond stored afterwards.
call_create_bond_with_rolling(identity, amount, duration, is_rolling, notice) ==
    Suspend("create_bond", create_bond_with_rolling_err(amount), UNCHANGED storage,
            NewBond(identity, calculate_fee(amount).net, duration, is_rolling,
                    notice), FALSE)

\* lib.rs 1201-1252 with a registered callback: bond stored, then on_withdraw.
call_withdraw_bond_full(identity) ==
    /\ callback
    /\ \E amt \in (IF HasBond
                   THEN Unchecked(bond.bonded_amount - bond.slashed_amount)
                   ELSE {[panic |-> FALSE, val |-> 0]}) :
          Suspend("withdraw_bond_full", withdraw_bond_full_err(identity, amt),
                  /\ bond' = withdraw_bond_full_updated(bond)
                  /\ lock' = TRUE
                  /\ UNCHANGED <<admin, token, callback, fees, fee_bps,
                                 penalty_bps, cooldown_period, cooldown_req,
                                 emergency_config, emergency_records,
                                 governance_approval, slash_history, attestations, parameters>>,
                  NoWrite, TRUE)

\* lib.rs 1256-1316 with a registered callback: bond stored, then on_slash.
call_slash_bond(caller, slash_amount) ==
    /\ callback
    /\ \E new_slashed \in (IF HasBond
                           THEN Unchecked(bond.slashed_amount + slash_amount)
                           ELSE {[panic |-> FALSE, val |-> 0]}) :
          Suspend("slash_bond", slash_bond_err(caller, new_slashed),
                  /\ bond' = slash_bond_updated(bond, new_slashed.val)
                  /\ lock' = TRUE
                  /\ UNCHANGED <<admin, token, callback, fees, fee_bps,
                                 penalty_bps, cooldown_period, cooldown_req,
                                 emergency_config, emergency_records,
                                 governance_approval, slash_history, attestations, parameters>>,
                  NoWrite, TRUE)

\* lib.rs 1320-1350 with a registered callback: pool zeroed, then on_collect.
call_collect_fees(caller) ==
    /\ callback
    /\ Suspend("collect_fees", collect_fees_err(caller),
               /\ fees' = 0
               /\ lock' = TRUE
               /\ UNCHANGED <<admin, token, bond, callback, fee_bps,
                              penalty_bps, cooldown_period, cooldown_req,
                              emergency_config, emergency_records,
                              governance_approval, slash_history, attestations, parameters>>,
               NoWrite, TRUE)

\* The callee returns: the suspended handler runs to its end.
external_return ==
    /\ frame # NoFrame
    /\ bond' = IF frame.pending = NoWrite THEN bond ELSE frame.pending
    /\ lock' = IF frame.release THEN release_lock(lock) ELSE lock
    /\ frame' = NoFrame
    /\ last' = Ok(frame.op)
    /\ hist' = <<>>
    /\ UNCHANGED <<admin, token, now, callback, fees, fee_bps, penalty_bps,
                   cooldown_period, cooldown_req, emergency_config,
                   emergency_records, governance_approval, slash_history,
                   attestations, parameters, foreign>>

\* The callee traps: the whole invocation is rolled back.
external_trap ==
    /\ frame # NoFrame
    /\ Restore(frame.snap)
    /\ frame' = NoFrame
    /\ last' = Fail(frame.op, "external call failed")
    /\ hist' = <<>>
    /\ UNCHANGED <<now, foreign>>

\* A call made at top level / by the callee of the suspended handler.
TopLevel(A) == frame = NoFrame /\ A /\ UNCHANGED hist
Nested(A) ==
    /\ frame # NoFrame
    /\ A
    /\ hist' = IF frame.op \in Guarded /\ last'.ok /\ last'.op \in Guarded
               THEN Append(hist, last'.op) ELSE hist

ReAmounts == {1, 2}

NextReentrant ==
    \/ TopLevel(\E a \in Admins : initialize(a)) /\ last'.ok
    \/ TopLevel(\E a \in Admins : set_token(a)) /\ last'.ok
    \/ TopLevel(set_callback) /\ last'.ok
    \/ TopLevel(deposit_fees(1)) /\ last'.ok
    \/ \E amt \in ReAmounts, d \in Durations :
          call_create_bond_with_rolling("alice", amt, d, FALSE, 0)
    \/ \E amt \in ReAmounts : call_top_up(amt)
    \/ \E amt \in ReAmounts : call_withdraw_bond(amt)
    \/ \E amt \in ReAmounts : call_withdraw_early(amt)
    \/ \E id \in Callers : call_withdraw_bond_full(id)
    \/ \E a \in Callers, amt \in ReAmounts : call_slash_bond(a, amt)
    \/ \E a \in Callers : call_collect_fees(a)
    \/ TopLevel(~callback /\ \E id \in Callers : withdraw_bond_full(id))
    \/ TopLevel(~callback /\ \E a \in Callers, amt \in ReAmounts : slash_bond(a, amt))
    \/ TopLevel(~callback /\ \E a \in Callers : collect_fees(a))
    \/ Nested(\E id \in Callers : withdraw_bond_full(id))
    \/ Nested(\E a \in Callers, amt \in ReAmounts : slash_bond(a, amt))
    \/ Nested(\E a \in Callers : collect_fees(a))
    \/ external_return
    \/ external_trap

SpecReentrant == Init /\ [][NextReentrant]_vars

\* ------------------------------------------------------------- claims
\* ------------------------------------------ specification: withdrawal timing
\* One identity bonds (rolling or not), the clock advances, the admin may
\* slash, and the identity requests and withdraws.  hist holds the latest
\* withdraw / withdraw_early call: its amount, its outcome, the bond it found,
\* the bond it left and the ledger time of the call.
TimedDurations == {1, 2}
TimedNotices == {0, 1}
TimedAmounts == {1, 2, I128_MAX}

TimedCall(op, amount) ==
    hist' = <<[op |-> op, amount |-> amount, ok |-> last'.ok,
               err |-> last'.err, before |-> bond, after |-> bond',
               at |-> now]>>

TickTimed ==
    /\ now < MaxClock
    /\ now' = now + 1
    /\ UNCHANGED <<storage, frame, foreign, last, hist>>

NextTimed ==
    \/ Committed(\E a \in Admins : initialize(a))
    \/ Committed(\E a \in Admins : set_token(a))
    \/ \E d \in TimedDurations, r \in BOOLEAN, n \in TimedNotices :
          /\ ~HasBond
          /\ create_bond_with_rolling("alice", 2, d, r, n)
          /\ last'.ok /\ hist' = <<>>
    \/ Committed(request_withdrawal)
    \/ Committed(\E a \in Admins : slash(a, 1))
    \/ \E amt \in TimedAmounts :
          withdraw_bond(amt) /\ TimedCall("withdraw_bond", amt)
    \/ \E amt \in TimedAmounts :
          withdraw_early(amt) /\ TimedCall("withdraw_early", amt)
    \/ renew_if_rolling /\ TimedCall("renew_if_rolling", 0)
    \/ TickTimed

SpecTimed == Init /\ [][NextTimed]_vars

\* ------------------------------------------ specification: cooldown window
\* The holder of a non-rolling bond and a stranger request, execute and cancel
\* cooldown withdrawals while the clock advances, the admin slashes and
\* changes the cooldown period.  hist holds the latest call: its arguments and
\* outcome, the bond and the caller's request before and after it, and two
\* ghosts per requester: `gone` tells how the requester's request was last
\* removed ("none" once a new one is stored) and `clean` tells that the
\* requester's request was stored by the call just before this one.
CooldownRequesters == {"alice", "gov"}
CooldownAmounts == {0, 1, 2}
CooldownPeriods == {0, 1}

NoCooldownCalls ==
    [op |-> "none", requester |-> "alice", amount |-> 0, ok |-> TRUE,
     err |-> "ok", at |-> 0, period |-> 0,
     bond_before |-> NoBond, bond_after |-> NoBond,
     req_before |-> NoReq, req_after |-> NoReq,
     was_gone |-> "none", was_clean |-> FALSE,
     gone |-> [r \in CooldownRequesters |-> "none"],
     clean |-> [r \in CooldownRequesters |-> FALSE]]

CooldownCall(op, requester, amount) ==
    LET prev == IF hist = <<>> THEN NoCooldownCalls ELSE hist[1]
    IN hist' =
          <<[op |-> op, requester |-> requester, amount |-> amount,
             ok |-> last'.ok, err |-> last'.err, at |-> now,
             period |-> cooldown_period,
             bond_before |-> bond, bond_after |-> bond',
             req_before |-> cooldown_req[requester],
             req_after |-> cooldown_req'[requester],
             was_gone |-> prev.gone[requester],
             was_clean |-> prev.clean[requester],
             gone |->
                [prev.gone EXCEPT ![requester] =
                    IF ~last'.ok THEN @
                    ELSE IF op = "request_cooldown_withdrawal" THEN "none"
                    ELSE IF op = "cancel_cooldown" THEN "cancel"
                    ELSE "execute"],
             clean |->
                [r \in CooldownRequesters |->
                    r = requester /\ last'.ok
                    /\ op = "request_cooldown_withdrawal"]]>>

\* A call of the admin: it ends every requester's `clean` run.
AdminCall(op) ==
    LET prev == IF hist = <<>> THEN NoCooldownCalls ELSE hist[1]
    IN hist' =
          <<[prev EXCEPT !.op = op, !.ok = last'.ok, !.err = last'.err,
                         !.at = now, !.period = cooldown_period,
                         !.bond_before = bond, !.bond_after = bond',
                         !.was_clean = FALSE,
                         !.clean = [r \in CooldownRequesters |-> FALSE]]>>

NextCooldown ==
    \/ ~HasBond /\ Committed(\E a \in Admins : initialize(a))
    \/ ~HasBond /\ Committed(\E a \in Admins : set_token(a))
    \/ ~HasBond /\ Committed(create_bond_with_rolling("alice", 2, 0, FALSE, 0))
    \/ \E p \in CooldownPeriods :
          /\ HasBond /\ p # cooldown_period
          /\ set_cooldown_period(admin, p) /\ AdminCall("set_cooldown_period")
    \/ HasBond /\ slash(admin, 1) /\ AdminCall("slash")
    \/ \E r \in CooldownRequesters, amt \in CooldownAmounts :
          /\ request_cooldown_withdrawal(r, amt)
          /\ CooldownCall("request_cooldown_withdrawal", r, amt)
    \/ \E r \in CooldownRequesters :
          /\ execute_cooldown_withdrawal(r)
          /\ CooldownCall("execute_cooldown_withdrawal", r, 0)
    \/ \E r \in CooldownRequesters :
          /\ cancel_cooldown(r)
          /\ CooldownCall("cancel_cooldown", r, 0)
    \/ TickTimed

SpecCooldown == Init /\ [][NextCooldown]_vars

\* ------------------------------------- specification: emergency withdrawal
\* The admin configures and toggles emergency mode and slashes while
\* emergency withdrawals are attempted with every combination of approvers.  hist holds the latest emergency_withdraw call: its
\* arguments and outcome, and the admin, the configuration, the bond and the
\* audit records before and after it.
EmergencyApprovers == {"admin", "alice"}
EmergencyGovernance == {"gov", "alice"}
EmergencyBps == {0, 5000, BPS_DENOMINATOR}
EmergencyAmounts == {0, 1, 2, I128_MAX}

EmergencyCall(caller, governance, amount) ==
    hist' = <<[caller |-> caller, governance |-> governance,
               amount |-> amount, ok |-> last'.ok, err |-> last'.err,
               admin |-> admin, config |-> emergency_config,
               bond_before |-> bond, bond_after |-> bond',
               records_before |-> emergency_records,
               records_after |-> emergency_records']>>

NextEmergency ==
    \/ ~HasBond /\ Committed(\E a \in Admins : initialize(a))
    \/ ~HasBond /\ Committed(\E a \in Admins : set_token(a))
    \/ ~HasBond /\ Committed(create_bond_with_rolling("alice", I128_MAX, 0,
                                                       FALSE, 0))
    \/ Committed(\E bps \in EmergencyBps, enabled \in BOOLEAN :
                    set_emergency_config(admin, "gov", bps, enabled))
    \/ Committed(\E enabled \in BOOLEAN :
                    set_emergency_mode(admin, "gov", enabled))
    \/ Committed(slash(admin, 1))
    \/ /\ Len(emergency_records) < MaxAudit
       /\ \E a \in EmergencyApprovers, g \in EmergencyGovernance,
             amt \in EmergencyAmounts :
             emergency_withdraw(a, g, amt) /\ EmergencyCall(a, g, amt)

SpecEmergency == Init /\ [][NextEmergency]_vars

\* --------------------------------------------- specification: attestations
\* The admin registers and unregisters attesters while attestations are
\* added and revoked with every combination of attester, subject, payload,
\* id and nonce.  hist holds the latest add_attestation or revoke_attestation
\* call: its arguments and outcome and the attestation storage before and
\* after it.
AttestAttesters == {"alice", "gov"}
AttestSubjects == {"admin", "alice"}
AttestData == {"d1", "d2"}
AttestNonces == {0, 1}

AddCall(attester, subject, attestation_data) ==
    hist' = <<[op |-> "add_attestation", attester |-> attester,
               subject |-> subject, attestation_data |-> attestation_data,
               ok |-> last'.ok, err |-> last'.err,
               before |-> attestations, after |-> attestations']>>

RevokeCall(attester, attestation_id, nonce) ==
    hist' = <<[op |-> "revoke_attestation", attester |-> attester,
               attestation_id |-> attestation_id, nonce |-> nonce,
               ok |-> last'.ok, err |-> last'.err,
               before |-> attestations, after |-> attestations']>>

NextAttest ==
    \/ admin = NoAddr /\ Committed(\E a \in Admins : initialize(a))
    \/ Committed(\E a \in AttestAttesters : register_attester(a))
    \/ Committed(\E a \in AttestAttesters : unregister_attester(a))
    \/ \E a \in AttestAttesters, s \in AttestSubjects, d \in AttestData :
          /\ \/ Len(attestations.items) < MaxAttestations
             \/ add_attestation_err(a, s, d) # "ok"
          /\ add_attestation(a, s, d) /\ AddCall(a, s, d)
    \/ \E a \in AttestAttesters, id \in 0..MaxAttestations,
          n \in AttestNonces :
          revoke_attestation(a, id, n) /\ RevokeCall(a, id, n)

SpecAttest == Init /\ [][NextAttest]_vars

\* ------------------------------------------- specification: failing calls
\* Every handler is called with valid and invalid arguments, and a call that
\* panics is a step of the specification as well.  A run exercises the bond
\* ledger and its cooldown together with one of the attestation, governance
\* and emergency subsystems.  hist holds the parameter list of the
\* create_batch_bonds call when that was the latest call and is empty
\* otherwise.
AtomicAmounts == {0, 1, 2}
BatchEntry(amount, is_rolling) ==
    [identity |-> "alice", amount |-> amount, duration |-> 0,
     is_rolling |-> is_rolling, notice_period_duration |-> 0]
BatchLists ==
    {<<>>,
     <<BatchEntry(2, FALSE)>>,
     <<BatchEntry(0, FALSE)>>,
     <<BatchEntry(1, FALSE), BatchEntry(2, FALSE)>>,
     <<BatchEntry(1, FALSE), BatchEntry(0, FALSE)>>,
     <<BatchEntry(1, FALSE), BatchEntry(1, TRUE)>>}

AttestIdle == attestations = NoAttestations
GovIdle == governance_approval = NoGovernance
EmergencyIdle == emergency_config = NoConfig

\* A call other than create_batch_bonds.
Call(A) == A /\ hist' = <<>>

NextAtomic ==
    \/ admin = NoAddr /\ Call(\E a \in Admins : initialize(a))
    \/ Call(\E a \in Callers : set_token(a))
    \/ \E params_list \in BatchLists :
          /\ create_batch_bonds(params_list)
          /\ hist' = <<[params_list |-> params_list]>>
    \/ Call(\E amt \in {0 - 1, 2} :
               create_bond_with_rolling("alice", amt, 0, FALSE, 0))
    \/ Call(\E amt \in AtomicAmounts : top_up(amt))
    \/ Call(\E amt \in AtomicAmounts : withdraw_bond(amt))
    \/ Call(\E a \in Callers, amt \in AtomicAmounts : slash(a, amt))
    \/ Call(\E a \in Callers, amt \in AtomicAmounts : unslash_bond(a, amt))
    \/ Call(\E id \in Callers : withdraw_bond_full(id))
    \/ Call(\E a \in Callers : set_cooldown_period(a, 0))
    \/ Call(\E id \in Callers, amt \in AtomicAmounts :
               request_cooldown_withdrawal(id, amt))
    \/ Call(\E id \in Callers : execute_cooldown_withdrawal(id))
    \/ Call(\E id \in Callers : cancel_cooldown(id))
    \/ /\ AttestIdle /\ GovIdle
       /\ Call(\E a \in Callers : set_emergency_config(a, "gov", 5000, TRUE))
    \/ /\ AttestIdle /\ GovIdle
       /\ Call(\E a \in Callers, amt \in AtomicAmounts :
                  /\ \/ Len(emergency_records) < MaxRecords
                     \/ emergency_withdraw_err(a, "gov", amt) # "ok"
                  /\ emergency_withdraw(a, "gov", amt))
    \/ /\ AttestIdle /\ EmergencyIdle
       /\ Call(\E a \in Callers, gs \in GovernorSets :
                  initialize_governance(a, gs, 5000, 2))
    \/ /\ AttestIdle /\ EmergencyIdle
       /\ Call(\E a \in Proposers : propose_slash(a, 1))
    \/ /\ AttestIdle /\ EmergencyIdle
       /\ Call(\E v \in Proposers, id \in ProposalIds :
                  governance_vote(v, id, TRUE))
    \/ /\ AttestIdle /\ EmergencyIdle
       /\ Call(\E a \in Proposers, id \in ProposalIds :
                  execute_slash_with_governance(a, id))
    \/ GovIdle /\ EmergencyIdle /\ Call(register_attester("alice"))
    \/ /\ GovIdle /\ EmergencyIdle
       /\ Call(\E a \in Callers :
                  /\ \/ Len(attestations.items) < MaxAttestations
                     \/ add_attestation_err(a, "admin", "d1") # "ok"
                  /\ add_attestation(a, "admin", "d1"))
    \/ /\ GovIdle /\ EmergencyIdle
       /\ Call(\E a \in Callers, id \in {0, 1} : revoke_attestation(a, id, 0))

SpecAtomic == Init /\ [][NextAtomic]_vars

\* -------------------------------------- specification: parameter store
\* The contract is initialised, by any address and any number of times, and
\* the eight parameter setters are invoked by any address with either
\* address as the `admin` argument and with values at and just outside the
\* bounds.  hist holds the latest call: the key set ("Admin" for
\* initialize), the invoking address, the arguments, the outcome and the
\* stored admin and parameters before the call.
ParamInvokers == {"admin", "alice"}
RateKeys == {"ProtocolFeeBps", "AttestationFeeBps",
             "WithdrawalCooldownSecs", "SlashCooldownSecs"}
ParamValues(k) ==
    IF k \in RateKeys THEN {ParamMax(k), ParamMax(k) + 1}
    ELSE {ParamMin(k) - 1, ParamMax(k), ParamMax(k) + 1}

ParamCall(k, invoker, admin_arg, value) ==
    hist' = <<[key |-> k, invoker |-> invoker, admin_arg |-> admin_arg,
               value |-> value, ok |-> last'.ok, admin |-> admin,
               before |-> parameters]>>

SetStep(k, A(_, _, _)) ==
    \E i \in ParamInvokers, a \in ParamInvokers, v \in ParamValues(k) :
        A(i, a, v) /\ ParamCall(k, i, a, v)

NextParams ==
    \/ \E i \in ParamInvokers, a \in ParamInvokers :
          initialize(a) /\ ParamCall("Admin", i, a, 0)
    \/ SetStep("ProtocolFeeBps", set_protocol_fee_bps)
    \/ SetStep("AttestationFeeBps", set_attestation_fee_bps)
    \/ SetStep("WithdrawalCooldownSecs", set_withdrawal_cooldown_secs)
    \/ SetStep("SlashCooldownSecs", set_slash_cooldown_secs)
    \/ SetStep("BronzeThreshold", set_bronze_threshold)
    \/ SetStep("SilverThreshold", set_silver_threshold)
    \/ SetStep("GoldThreshold", set_gold_threshold)
    \/ SetStep("PlatinumThreshold", set_platinum_threshold)

SpecParams == Init /\ [][NextParams]_vars

\* ------------------------------------ specification: fixed-duration bonds
\* fixed_duration_bond is initialised and configured by its admin, two
\* owners create bonds and withdraw them on time or early, and the clock
\* advances.  hist holds the latest create_bond, withdraw or withdraw_early
\* call: its owner, outcome and time, the owner's bond before and after, and
\* per owner the number of withdrawals paid since the owner's latest bond
\* was created.
FixedOwners == {"alice", "gov"}
FixedAmounts == {0, 2}
FixedDurations == {0, 1}
FixedBps == {0, 5000}

NoFixedCalls == [paid |-> [o \in FixedOwners |-> 0]]

FixedCall(op, owner) ==
    LET prev == IF hist = <<>> THEN NoFixedCalls ELSE hist[1]
    IN hist' =
          <<[op |-> op, owner |-> owner, ok |-> last'.ok, err |-> last'.err,
             at |-> now,
             before |-> fixed_bond.bonds[owner],
             after |-> fixed_bond'.bonds[owner],
             paid |-> [prev.paid EXCEPT ![owner] =
                          IF ~last'.ok THEN @
                          ELSE IF op = "create_bond" THEN 0
                          ELSE @ + 1]]>>

NextFixed ==
    \/ Committed(\E a \in Admins : fixed_initialize(a))
    \/ Committed(\E a \in Admins, bps \in FixedBps :
                    fixed_set_fee_config(a, bps))
    \/ Committed(\E a \in Admins, bps \in FixedBps :
                    fixed_set_penalty_config(a, bps))
    \/ Committed(\E a \in Admins : fixed_collect_fees(a))
    \/ \E o \in FixedOwners, amt \in FixedAmounts, d \in FixedDurations :
          /\ fixed_bond.fee_bps = 0 \/ fixed_bond.accrued_fees < MaxAccrued
          /\ fixed_create_bond(o, amt, d) /\ FixedCall("create_bond", o)
    \/ \E o \in FixedOwners : fixed_withdraw(o) /\ FixedCall("withdraw", o)
    \/ \E o \in FixedOwners :
          fixed_withdraw_early(o) /\ FixedCall("withdraw_early", o)
    \/ Tick /\ UNCHANGED hist

SpecFixed == Init /\ [][NextFixed]_vars

\* ------------------------------------------- specification: multisig
\* credence_multisig is initialised, again and again, by either of two
\* addresses; the admin adds and removes signers and sets the threshold;
\* signers submit and sign proposals; anyone executes; the clock advances.
\* Calls to sign, execute and reject are steps even when refused; of the
\* other calls the successful ones are.  hist is not used.
MultisigAdmins == {"admin", "alice"}
MultisigSigners == {"alice", "gov"}
MultisigSignerLists == {<<"alice">>, <<"alice", "gov">>, <<"alice", "alice">>}
MultisigThresholds == 1..2
MultisigExpiries == {0, 1}
MultisigIds == 0..(MaxSubmitted - 1)

NextMultisig ==
    \/ Committed(\E a \in MultisigAdmins, ss \in MultisigSignerLists,
                    t \in MultisigThresholds : multisig_initialize(a, ss, t))
    \/ Committed(\E s \in MultisigSigners :
                    multisig_add_signer(multisig.admin, s))
    \/ Committed(\E s \in MultisigSigners :
                    multisig_remove_signer(multisig.admin, s))
    \/ Committed(\E t \in MultisigThresholds :
                    multisig_set_threshold(multisig.admin, t))
    \/ Committed(/\ multisig.proposal_counter < MaxSubmitted
                 /\ \E p \in MultisigSigners, x \in MultisigExpiries :
                       multisig_submit_proposal(p, x))
    \/ \E s \in MultisigSigners, id \in MultisigIds :
          multisig_sign_proposal(s, id) /\ UNCHANGED hist
    \/ \E id \in MultisigIds :
          multisig_execute_proposal(id) /\ UNCHANGED hist
    \/ \E a \in MultisigAdmins, id \in MultisigIds :
          multisig_reject_proposal(a, id) /\ UNCHANGED hist
    \/ Tick /\ UNCHANGED hist

SpecMultisig == Init /\ [][NextMultisig]_vars

\* C1: after every operation of any sequence of bond operations the stored
\* bond satisfies 0 <= slashed_amount <= bonded_amount.
C1_SlashedWithinBonded ==
    HasBond => (0 <= bond.slashed_amount /\ bond.slashed_amount <= bond.bonded_amount)

BondOps == {"slash", "slash_bond", "top_up", "withdraw_bond", "withdraw_early",
            "withdraw_bond_full", "execute_cooldown_withdrawal",
            "emergency_withdraw"}

\* C3: no slash, withdrawal, top-up, cooldown execution or emergency
\* withdrawal lowers slashed_amount; only unslash may.
C3_SlashedMonotonic ==
    [][(HasBond /\ last'.op \in BondOps /\ bond' # bond)
          => bond'.slashed_amount >= bond.slashed_amount]_vars

\* C4: the slashed_amount stored by unslash is never below 0.
C4_UnslashFloor ==
    (last.op = "unslash_bond" /\ last.ok) => bond.slashed_amount >= 0

RECURSIVE SumAmounts(_)
SumAmounts(log) ==
    IF log = <<>> THEN 0 ELSE log[1].amount + SumAmounts(Tail(log))

AllNonNegative(log) == \A i \in 1..Len(log) : log[i].amount >= 0
AllOk(log) == \A i \in 1..Len(log) : log[i].ok

\* slashed_amount after the logged slashes is min(bonded, s + x + y + ...).
Additive(log) ==
    bond.slashed_amount = Min(bond.bonded_amount, log[1].before + SumAmounts(log))

\* C2 as stated: slashes of non-negative amounts compose additively under
\* the cap, and a slash exceeding the remaining balance succeeds (clamped).
C2_Original ==
    (HasBond /\ hist # <<>> /\ AllNonNegative(hist))
       => /\ Additive(hist)
          /\ \A i \in 1..Len(hist) :
                hist[i].amount > bond.bonded_amount - hist[i].before => hist[i].ok

\* C2 amended: direct slashes of non-negative amounts that succeed compose
\* additively under the cap; a slash exceeding the remaining balance succeeds
\* (clamped) unless slashed_amount + amount overflows i128, and then it fails.
C2_CappedAdditive ==
    (HasBond /\ hist # <<>> /\ AllNonNegative(hist))
       => /\ AllOk(hist) => Additive(hist)
          /\ \A i \in 1..Len(hist) :
                hist[i].ok <=> InI128(hist[i].before + hist[i].amount)

\* Two successful slashes, the second one exceeding the remaining balance.
C2_Witness ==
    /\ HasBond /\ Len(hist) >= 2 /\ AllNonNegative(hist) /\ AllOk(hist)
    /\ hist[1].amount > 0
    /\ hist[2].amount > bond.bonded_amount - hist[2].before
    /\ bond.slashed_amount = bond.bonded_amount
    /\ bond.bonded_amount > 0

\* C5: when a handler makes its external call, storage already holds every
\* write of that handler (nothing is written after the callee returns), so
\* a re-entrant call sees the updated bond.
C5_EffectsBeforeInteraction ==
    [][(frame = NoFrame /\ frame' # NoFrame /\ frame'.pending # NoWrite)
          => bond' = frame'.pending]_vars

\* C6: while a guarded handler is in its callback, a nested guarded call is
\* rejected with "reentrancy detected", so the call tree issues one payout.
C6_NestedGuardedRejected ==
    (frame # NoFrame /\ frame.op \in Guarded)
       => /\ (last.op \in Guarded /\ last # Pending(frame.op))
                => last = Fail(last.op, "reentrancy detected")
          /\ Len(hist) <= 1

\* A nested guarded call was made during a guarded handler's callback.
C6_Witness ==
    /\ frame # NoFrame /\ frame.op = "withdraw_bond_full"
    /\ last = Fail("collect_fees", "reentrancy detected")
    /\ hist = <<"withdraw_bond_full">>

\* C7: the lock is free whenever no call is in progress, whether the last
\* call committed or failed.
C7_LockReleased == frame = NoFrame => ~lock

\* A guarded call failed, and a guarded call with a callback committed.
C7_WitnessFailed ==
    frame = NoFrame /\ ~last.ok /\ last.op \in Guarded /\ ~lock /\ HasBond

\* C8: execute_slash_with_governance changes the bond only when the
\* proposal's approvals meet its quorum; short of quorum the proposer's call
\* fails with "proposal not approved", and once quorum is met the call of a
\* proposer whom the slash accepts succeeds.
C8_QuorumGate ==
    hist # <<>> =>
       /\ hist[1].bond_changed => hist[1].approved
       /\ ~hist[1].approved => ~hist[1].ok
       /\ (~hist[1].approved /\ hist[1].by_proposer)
             => hist[1].err = "proposal not approved"
       /\ (hist[1].approved /\ ~hist[1].executed /\ hist[1].by_proposer
             /\ hist[1].slash_err = "ok") => hist[1].ok

\* Two governors, quorum of both: execute was refused after one approval and
\* succeeded after the second.
C8_Witness ==
    /\ hist # <<>>
    /\ hist[1].id \in hist[1].refused
    /\ Cardinality(get_proposal(hist[1].id).governors) = 2
    /\ get_proposal(hist[1].id).quorum_bps = 10000
    /\ last = Ok("execute_slash_with_governance")
    /\ hist[1].ok /\ hist[1].applied[hist[1].id] = 1
    /\ Cardinality({v \in governance_approval.votes :
                       v.id = hist[1].id /\ v.approve}) = 2

\* C9: a call by anyone but proposal.proposed_by fails with "only proposer
\* can execute" and changes neither the bond nor the proposal.
C9_OnlyProposer ==
    (hist # <<>> /\ ~hist[1].by_proposer)
       => /\ hist[1].err = "only proposer can execute"
          /\ ~hist[1].bond_changed
          /\ ~hist[1].governance_changed

\* The admin tried to execute a governor's proposal that had quorum.
C9_Witness ==
    /\ hist # <<>>
    /\ ~hist[1].by_proposer /\ hist[1].approved /\ ~hist[1].executed
    /\ hist[1].proposer = admin /\ hist[1].slash_err = "ok"
    /\ last = Fail("execute_slash_with_governance", "only proposer can execute")

\* C10: an executed proposal cannot be executed again, and no proposal id
\* raises slashed_amount twice.
C10_OneShot ==
    hist # <<>> =>
       /\ hist[1].executed => (~hist[1].ok /\ ~hist[1].bond_changed)
       /\ \A id \in ProposalIds : hist[1].applied[id] <= 1

\* A proposal was executed, then its proposer tried again with quorum still
\* met and room left on the bond.
C10_Witness ==
    /\ hist # <<>>
    /\ hist[1].applied[hist[1].id] = 1
    /\ hist[1].executed /\ hist[1].by_proposer /\ hist[1].approved
    /\ hist[1].slash_err = "ok"
    /\ ~hist[1].ok
    /\ HasBond /\ bond.slashed_amount < bond.bonded_amount

\* C11: every successful execute_slash_with_governance appends one record to
\* the slash-history ledger of the slashed identity, carrying the proposal's
\* amount and the cumulative slashed total after the slash.
C11_HistoryAppended ==
    (hist # <<>> /\ hist[1].ok /\ HasBond
        /\ last = Ok("execute_slash_with_governance"))
       => /\ get_slash_count(bond.identity) >= 1
          /\ LET h == slash_history[bond.identity]
             IN /\ h[Len(h)].slash_amount = get_proposal(hist[1].id).amount
                /\ h[Len(h)].total_slashed_after = bond.slashed_amount

\* The latest logged call is `op` and it found a bond.
TimedIs(op) == hist # <<>> /\ hist[1].op = op /\ hist[1].before # NoBond

\* bonded_amount - slashed_amount of the bond the latest logged call found.
AvailableBefore == hist[1].before.bonded_amount - hist[1].before.slashed_amount

\* Lock-up end of the bond the latest logged call found.
EndBefore == hist[1].before.bond_start + hist[1].before.bond_duration

C13_LockUpGate ==
    (TimedIs("withdraw_bond") /\ ~hist[1].before.is_rolling)
       => /\ hist[1].ok => hist[1].at >= EndBefore
          /\ hist[1].at < EndBefore
                => /\ ~hist[1].ok
                   /\ hist[1].err = "lock-up period not elapsed; use withdraw_early"
                   /\ hist[1].after = hist[1].before
          /\ (hist[1].at = EndBefore /\ hist[1].amount <= AvailableBefore)
                => hist[1].ok

\* A withdrawal at exactly bond_start + bond_duration of a bond with a
\* lock-up went through.
C13_Witness ==
    /\ TimedIs("withdraw_bond") /\ ~hist[1].before.is_rolling
    /\ hist[1].before.bond_duration >= 1
    /\ hist[1].at = EndBefore
    /\ last = Ok("withdraw_bond")
    /\ bond.bonded_amount = hist[1].before.bonded_amount - hist[1].amount

\* C14: on a rolling bond withdraw succeeds only if withdrawal_requested_at
\* is set (non-zero) and the call is at or after withdrawal_requested_at +
\* notice_period_duration; any other call fails and leaves the bond unchanged.
C14_NoticeGate ==
    (TimedIs("withdraw_bond") /\ hist[1].before.is_rolling)
       => /\ hist[1].ok
                => /\ hist[1].before.withdrawal_requested_at # 0
                   /\ hist[1].at >= hist[1].before.withdrawal_requested_at
                                       + hist[1].before.notice_period_duration
          /\ ~hist[1].ok => hist[1].after = hist[1].before

\* A rolling bond with a notice period was withdrawn from after its notice.
C14_Witness ==
    /\ TimedIs("withdraw_bond") /\ hist[1].before.is_rolling
    /\ hist[1].before.notice_period_duration >= 1
    /\ hist[1].before.withdrawal_requested_at # 0
    /\ last = Ok("withdraw_bond")
    /\ bond.bonded_amount < hist[1].before.bonded_amount

\* C15: withdraw_early succeeds only strictly before bond_start +
\* bond_duration and fails at or after it; on a non-rolling bond no ledger
\* time admits both withdraw and withdraw_early.
C15_EarlyOnlyBeforeEnd ==
    /\ TimedIs("withdraw_early")
          => /\ hist[1].ok => hist[1].at < EndBefore
             /\ hist[1].at >= EndBefore
                   => (~hist[1].ok /\ hist[1].after = hist[1].before)
    /\ (HasBond /\ ~bond.is_rolling)
          => \A a1, a2 \in TimedAmounts :
                ~(withdraw_bond_err(a1) = "ok" /\ withdraw_early_err(a2) = "ok")

\* withdraw_early was refused at the lock-up end after it had been possible
\* for the same bond.
C15_Witness ==
    /\ TimedIs("withdraw_early") /\ ~hist[1].before.is_rolling
    /\ hist[1].at = EndBefore
    /\ hist[1].amount <= AvailableBefore
    /\ last = Fail("withdraw_early", "use withdraw for post lock-up")
    /\ hist[1].before.bonded_amount = 1

\* The latest logged call is `op`.
CooldownIs(op) == hist # <<>> /\ hist[1].op = op

\* The latest logged call found a request of its requester and a bond.
FoundRequest == hist[1].req_before # NoReq /\ hist[1].bond_before # NoBond

\* bonded_amount - slashed_amount of the bond the latest logged call found.
CooldownAvailable ==
    hist[1].bond_before.bonded_amount - hist[1].bond_before.slashed_amount

\* C16: execute_cooldown_withdrawal re-validates the balance: when the
\* requested amount exceeds bonded_amount - slashed_amount at execution, the
\* call fails and leaves the bond unchanged, and a successful call takes
\* exactly the requested amount.
C16_Revalidated ==
    (CooldownIs("execute_cooldown_withdrawal") /\ FoundRequest)
       => /\ hist[1].req_before.amount > CooldownAvailable
                => (~hist[1].ok /\ hist[1].bond_after = hist[1].bond_before)
          /\ hist[1].ok
                => hist[1].bond_after =
                      [hist[1].bond_before EXCEPT !.bonded_amount =
                          @ - hist[1].req_before.amount]

\* A request of 2 on a bond of 2, a slash of 1, and the execution after the
\* cooldown refused for insufficient balance.
C16_Witness ==
    /\ CooldownIs("execute_cooldown_withdrawal") /\ FoundRequest
    /\ hist[1].req_before.amount = 2
    /\ hist[1].req_before.requested_at # 0
    /\ hist[1].at >= hist[1].req_before.requested_at + hist[1].period
    /\ hist[1].bond_before.slashed_amount = 1
    /\ last = Fail("execute_cooldown_withdrawal",
                   "insufficient balance for withdrawal")

\* C17: request_cooldown_withdrawal leaves the bond unchanged, and an
\* execute_cooldown_withdrawal that follows it with nothing but the passage
\* of at least the cooldown period in between succeeds with bonded_amount
\* reduced by the requested amount and slashed_amount unchanged.
C17_RoundTrip ==
    /\ CooldownIs("request_cooldown_withdrawal")
          => hist[1].bond_after = hist[1].bond_before
    /\ (CooldownIs("execute_cooldown_withdrawal") /\ hist[1].was_clean
          /\ hist[1].at >= hist[1].req_before.requested_at + hist[1].period)
          => /\ hist[1].ok
             /\ hist[1].bond_after.bonded_amount =
                   hist[1].bond_before.bonded_amount - hist[1].req_before.amount
             /\ hist[1].bond_after.slashed_amount =
                   hist[1].bond_before.slashed_amount

\* C18: execute_cooldown_withdrawal fails at every ledger time before
\* requested_at + cooldown_period and leaves the bond and the request
\* unchanged; from requested_at + cooldown_period on (immediately for a zero
\* period) a request within the available balance is executed.
C18_CooldownGate ==
    (CooldownIs("execute_cooldown_withdrawal") /\ FoundRequest)
       => /\ hist[1].at < hist[1].req_before.requested_at + hist[1].period
                => /\ ~hist[1].ok
                   /\ hist[1].bond_after = hist[1].bond_before
                   /\ hist[1].req_after = hist[1].req_before
          /\ (hist[1].at >= hist[1].req_before.requested_at + hist[1].period
                /\ hist[1].req_before.amount <= CooldownAvailable)
                => hist[1].ok

\* C19: a successful cancel_cooldown or execute_cooldown_withdrawal removes
\* the requester's request, and until that requester's next successful
\* request every execute_cooldown_withdrawal fails with "no cooldown request"
\* and leaves the bond unchanged.
C19_RemovedRequest ==
    hist # <<>> =>
       /\ (hist[1].ok /\ hist[1].op \in {"cancel_cooldown",
                                         "execute_cooldown_withdrawal"})
             => (hist[1].req_before # NoReq /\ hist[1].req_after = NoReq)
       /\ (hist[1].op = "execute_cooldown_withdrawal"
             /\ hist[1].was_gone # "none")
             => /\ ~hist[1].ok
                /\ hist[1].err = "no cooldown request"
                /\ hist[1].bond_after = hist[1].bond_before

\* An execution was refused after the requester had cancelled a request
\* whose cooldown had elapsed and whose amount was available.
C19_Witness ==
    /\ CooldownIs("execute_cooldown_withdrawal")
    /\ hist[1].was_gone = "cancel"
    /\ hist[1].bond_before # NoBond /\ CooldownAvailable >= 1
    /\ hist[1].at >= 1
    /\ last = Fail("execute_cooldown_withdrawal", "no cooldown request")

C21_NoOverwrite ==
    [][(HasBond /\ bond.active
          /\ last'.op \in {"create_bond", "create_batch_bonds"})
          => bond' = bond]_vars

\* C22: renew_if_rolling changes nothing unless the bond is rolling and
\* now >= bond_start + bond_duration; when it renews, bond_start becomes now
\* and withdrawal_requested_at becomes 0 (nothing else changes), and until
\* the next call no withdraw is admitted.
C22_RenewOnlyElapsedRolling ==
    TimedIs("renew_if_rolling")
       => /\ hist[1].ok
          /\ IF hist[1].before.is_rolling /\ hist[1].at >= EndBefore
             THEN hist[1].after =
                     [hist[1].before EXCEPT !.bond_start = hist[1].at,
                                            !.withdrawal_requested_at = 0]
             ELSE hist[1].after = hist[1].before
          /\ (last.op = "renew_if_rolling" /\ hist[1].after # hist[1].before)
                => \A amt \in TimedAmounts : withdraw_bond_err(amt) # "ok"

\* A rolling bond whose withdrawal had been requested was renewed after its
\* period: the request is gone and the period starts again.
C22_Witness ==
    /\ TimedIs("renew_if_rolling")
    /\ hist[1].before.is_rolling
    /\ hist[1].before.withdrawal_requested_at # 0
    /\ last = Ok("renew_if_rolling")
    /\ bond.withdrawal_requested_at = 0
    /\ bond.bond_start = hist[1].at /\ bond.bond_start > hist[1].before.bond_start

\* C23: emergency_withdraw reduces the bond only if the admin argument is
\* the stored admin, the governance argument is the configured governance
\* address, emergency mode is enabled, amount > 0 and amount <=
\* bonded_amount - slashed_amount; a failing call leaves the bond unchanged
\* and writes no audit record.
C23_EmergencyGate ==
    hist # <<>> =>
       /\ hist[1].ok
             => /\ hist[1].caller = hist[1].admin
                /\ hist[1].config # NoConfig
                /\ hist[1].governance = hist[1].config.governance
                /\ hist[1].config.enabled
                /\ hist[1].amount > 0
                /\ hist[1].bond_before # NoBond
                /\ hist[1].amount <= hist[1].bond_before.bonded_amount
                                        - hist[1].bond_before.slashed_amount
       /\ ~hist[1].ok
             => /\ hist[1].bond_after = hist[1].bond_before
                /\ hist[1].records_after = hist[1].records_before

\* Both approvers were right and the amount was available, but emergency
\* mode was off: the call was refused.
C23_Witness ==
    /\ hist # <<>>
    /\ hist[1].caller = hist[1].admin
    /\ hist[1].config # NoConfig
    /\ hist[1].governance = hist[1].config.governance
    /\ ~hist[1].config.enabled
    /\ hist[1].amount = 1 /\ hist[1].bond_before # NoBond
    /\ hist[1].bond_before.bonded_amount - hist[1].bond_before.slashed_amount >= 1
    /\ last = Fail("emergency_withdraw", "emergency mode disabled")

\* A step of a successful emergency_withdraw.
EmergencySuccess ==
    hist' # hist /\ hist'[1].ok

\* C24: audit records are append-only: a successful emergency_withdraw
\* creates the record whose id is the latest id plus 1 (the first is 1), no
\* other step moves the latest id, and every record already written is
\* returned unchanged by get_record after every step.
C24_AppendOnlyAudit ==
    [][LET n == latest_record_id(emergency_records)
       IN /\ \A id \in 1..n :
                get_record(emergency_records', id)
                   = get_record(emergency_records, id)
          /\ latest_record_id(emergency_records')
                = IF EmergencySuccess THEN n + 1 ELSE n
          /\ EmergencySuccess
                => get_record(emergency_records', n + 1).id = n + 1]_vars

\* Two emergency withdrawals went through, with a refused one before the
\* second: the records carry ids 1 and 2.
C24_Witness ==
    /\ hist # <<>> /\ hist[1].ok
    /\ latest_record_id(emergency_records) = 2
    /\ get_record(emergency_records, 1).id = 1
    /\ get_record(emergency_records, 2).id = 2
    /\ get_record(emergency_records, 1).gross_amount
          # get_record(emergency_records, 2).gross_amount

\* C25: a successful emergency_withdraw of gross amount g under fee_bps f
\* (0 <= f <= 10000) charges fee = floor(g * f / 10000) with 0 <= fee <= g,
\* records (g, fee, g - fee) and lowers bonded_amount by exactly g.
C25_EmergencyFee ==
    (hist # <<>> /\ hist[1].ok)
       => LET g == hist[1].amount
              f == hist[1].config.emergency_fee_bps
              r == hist[1].records_after[Len(hist[1].records_after)]
          IN /\ 0 <= f /\ f <= BPS_DENOMINATOR
             /\ r.fee_amount * BPS_DENOMINATOR <= g * f
             /\ g * f < (r.fee_amount + 1) * BPS_DENOMINATOR
             /\ 0 <= r.fee_amount /\ r.fee_amount <= g
             /\ r.gross_amount = g
             /\ r.net_amount = g - r.fee_amount
             /\ hist[1].bond_after =
                   [hist[1].bond_before EXCEPT !.bonded_amount = @ - g]

\* A withdrawal of 3 at 5000 bps: the fee is rounded down to 1, net 2.
C25_Witness ==
    /\ hist # <<>> /\ hist[1].ok
    /\ hist[1].amount = 3 /\ hist[1].config.emergency_fee_bps = 5000
    /\ last = Ok("emergency_withdraw")
    /\ emergency_records[Len(emergency_records)].fee_amount = 1
    /\ emergency_records[Len(emergency_records)].net_amount = 2
    /\ bond.bonded_amount = 0

\* C26: a call to add_attestation or revoke_attestation succeeds only if the
\* supplied nonce equals the caller's expected nonce (get_nonce), and each
\* success advances that caller's nonce by exactly one.
C26_NonceSequenced ==
    (hist # <<>> /\ hist[1].ok)
       => /\ hist[1].op = "revoke_attestation"
                => hist[1].nonce = hist[1].before.nonce[hist[1].attester]
          /\ hist[1].after.nonce[hist[1].attester]
                = hist[1].before.nonce[hist[1].attester] + 1

\* The attestations of `st` that are not revoked.
Live(st) == {i \in DOMAIN st.items : ~st.items[i].revoked}

\* The dedup key of a stored attestation.
KeyOf(a) == DuplicateCheck(a.attester, a.subject, a.attestation_data)

C28_ReattestAfterRevoke ==
    (/\ hist # <<>> /\ hist[1].op = "add_attestation"
     /\ hist[1].attester \in hist[1].before.attesters
     /\ \E i \in DOMAIN hist[1].before.items :
           /\ hist[1].before.items[i].revoked
           /\ KeyOf(hist[1].before.items[i])
                 = DuplicateCheck(hist[1].attester, hist[1].subject,
                                  hist[1].attestation_data)
     /\ \A i \in Live(hist[1].before) :
           KeyOf(hist[1].before.items[i])
              # DuplicateCheck(hist[1].attester, hist[1].subject,
                               hist[1].attestation_data))
       => /\ hist[1].ok
          /\ Len(hist[1].after.items) = Len(hist[1].before.items) + 1
          /\ \A i \in DOMAIN hist[1].before.items :
                hist[1].after.items[i] = hist[1].before.items[i]

WithdrawalOps == {"withdraw_bond", "withdraw_early",
                  "execute_cooldown_withdrawal", "emergency_withdraw",
                  "withdraw_bond_full"}

\* C30: after a withdrawal operation (withdraw, withdraw_early,
\* execute_cooldown_withdrawal, emergency_withdraw, withdraw_bond_full) that
\* leaves bonded_amount = 0 the stored bond has active = FALSE.
C30_InactiveWhenEmpty ==
    (/\ HasBond /\ last.ok /\ last.op \in WithdrawalOps
     /\ bond.bonded_amount = 0)
       => ~bond.active

\* C31: tier classification uses inclusive lower bounds: an amount equal to
\* a threshold maps to the higher tier and the amount one below it to the
\* lower tier, at each of the three thresholds; and get_tier is the tier of
\* the bonded_amount currently stored.
C31_TierBoundaries ==
    /\ get_tier_for_amount(TIER_BRONZE_MAX - 1) = "Bronze"
    /\ get_tier_for_amount(TIER_BRONZE_MAX) = "Silver"
    /\ get_tier_for_amount(TIER_SILVER_MAX - 1) = "Silver"
    /\ get_tier_for_amount(TIER_SILVER_MAX) = "Gold"
    /\ get_tier_for_amount(TIER_GOLD_MAX - 1) = "Gold"
    /\ get_tier_for_amount(TIER_GOLD_MAX) = "Platinum"
    /\ HasBond
          => /\ get_tier = "Bronze" <=> bond.bonded_amount < TIER_BRONZE_MAX
             /\ get_tier = "Silver"
                   <=> /\ TIER_BRONZE_MAX <= bond.bonded_amount
                       /\ bond.bonded_amount < TIER_SILVER_MAX
             /\ get_tier = "Gold"
                   <=> /\ TIER_SILVER_MAX <= bond.bonded_amount
                       /\ bond.bonded_amount < TIER_GOLD_MAX
             /\ get_tier = "Platinum" <=> TIER_GOLD_MAX <= bond.bonded_amount

\* A slashed bond whose bonded_amount sits exactly on the Silver/Gold
\* threshold after a top-up: it reads Gold.
C31_Witness ==
    /\ HasBond /\ last = Ok("top_up")
    /\ bond.bonded_amount = TIER_SILVER_MAX
    /\ bond.slashed_amount > 0
    /\ get_tier = "Gold"


\* C32: after any sequence of successful threshold setter calls the tier
\* thresholds read, stored or default, satisfy
\* bronze <= silver <= gold <= platinum.
C32_ThresholdsOrdered ==
    /\ get_parameter(parameters, "BronzeThreshold")
          <= get_parameter(parameters, "SilverThreshold")
    /\ get_parameter(parameters, "SilverThreshold")
          <= get_parameter(parameters, "GoldThreshold")
    /\ get_parameter(parameters, "GoldThreshold")
          <= get_parameter(parameters, "PlatinumThreshold")

InRange(k, value) == ParamMin(k) <= value /\ value <= ParamMax(k)

\* C33: every parameter always reads inside its [min, max] range, and a
\* setter call invoked by an address other than the admin, or with a value
\* outside the range, fails and leaves the parameters unchanged.
C33_ParametersGuarded ==
    /\ \A k \in ParameterKey : InRange(k, get_parameter(parameters, k))
    /\ \A i \in DOMAIN hist :
          (/\ hist[i].key \in ParameterKey
           /\ \/ hist[i].invoker # hist[i].admin
              \/ ~InRange(hist[i].key, hist[i].value))
             => (~hist[i].ok /\ parameters = hist[i].before)

\* C38: once the contract is initialised, an initialize call invoked by an
\* address other than the stored admin does not replace the admin.
C38_AdminKept ==
    \A i \in DOMAIN hist :
        (/\ hist[i].key = "Admin"
         /\ hist[i].admin # NoAddr
         /\ hist[i].invoker # hist[i].admin)
           => admin = hist[i].admin

\* C36: at a time before bond_start + bond_duration, no successful
\* execute_cooldown_withdrawal lowers the bonded_amount of a bond that is
\* not rolling.
C36_CooldownRespectsLockup ==
    [][(/\ HasBond
        /\ last'.op = "execute_cooldown_withdrawal" /\ last'.ok
        /\ ~bond.is_rolling
        /\ now < bond.bond_start + bond.bond_duration)
          => bond'.bonded_amount >= bond.bonded_amount]_vars

InactiveOps == {"slash", "slash_bond", "unslash_bond", "top_up",
                "withdraw_bond", "withdraw_early", "withdraw_bond_full",
                "request_cooldown_withdrawal", "execute_cooldown_withdrawal",
                "emergency_withdraw"}

\* C39: once the stored bond has active == false, no slash, unslash,
\* top-up, withdrawal, cooldown request or execution or emergency
\* withdrawal changes its bonded_amount or slashed_amount.
C39_InactiveTerminal ==
    [][(HasBond /\ ~bond.active /\ last'.op \in InactiveOps)
          => (/\ HasBond'
              /\ bond'.bonded_amount = bond.bonded_amount
              /\ bond'.slashed_amount = bond.slashed_amount)]_vars

\* C37: an execute_slash_with_governance call made by the original proposer
\* of a proposal that reached quorum and was not executed before succeeds,
\* whether the proposer is the admin or a governor who is not the admin,
\* whenever the slash is applicable to the stored bond (slash_err is the
\* verdict of slashing::slash_bond, whose first check is the admin check).
C37_ProposerExecutes ==
    \A i \in DOMAIN hist :
        (/\ hist[i].slash_err \in {"ok", "not admin"}
         /\ hist[i].by_proposer /\ hist[i].approved /\ ~hist[i].executed)
           => hist[i].ok

SignedByCurrent(proposal_id) ==
    {s \in multisig.signers : <<proposal_id, s>> \in multisig.signatures}

Closed(proposal_id) ==
    /\ HasMultisigProposal(proposal_id)
    /\ multisig.proposals[proposal_id].status \in {"Executed", "Rejected"}

\* C35: a proposal becomes Executed only by an execute_proposal call made
\* while it is Pending and not expired and its signature count is at least
\* the current threshold, no signer having signed it twice; and an Executed
\* or Rejected proposal stays as it is: it is not signed, executed or
\* rejected again.
C35_ExecutedOnce ==
    [][\A id \in DOMAIN multisig.proposals :
          /\ (/\ HasMultisigProposal(id)
              /\ multisig'.proposals[id].status = "Executed"
              /\ multisig.proposals[id].status # "Executed")
                => (/\ last'.op = "execute_proposal"
                    /\ multisig.proposals[id].status = "Pending"
                    /\ ~Expired(multisig.proposals[id])
                    /\ multisig.signature_count[id] >= multisig.threshold
                    /\ multisig.signature_count[id]
                          = Cardinality({g \in multisig.signatures :
                                            g[1] = id}))
          /\ Closed(id)
                => (/\ multisig'.proposals[id] = multisig.proposals[id]
                    /\ multisig'.signature_count[id]
                          = multisig.signature_count[id])]_vars

\* C40: a proposal is executed only if at least threshold of the currently
\* registered signers have signed it.
C40_CurrentSignersOnly ==
    [][\A id \in DOMAIN multisig.proposals :
          (/\ HasMultisigProposal(id)
           /\ multisig.proposals[id].status = "Pending"
           /\ multisig'.proposals[id].status = "Executed")
             => Cardinality(SignedByCurrent(id)) >= multisig.threshold]_vars
====
